---- MODULE Spec2Model ----
(***************************************************************************)
(* Model of the agentic orchestration core of ai-avatar-assistant:         *)
(*   core/orchestrator.py     OrchestratorAgent.orchestrate, _execute_plan,*)
(*                            _resolve_params, _handle_rate_limit          *)
(*   core/workflow_engine.py  WorkflowEngine.run, _resolve_params          *)
(*                                                                         *)
(* Text.  A Python str is a sequence of atoms.  An atom is a piece of text *)
(* the code never looks inside: the one-character atoms "$" and " ", the   *)
(* letters and digits, and whole words ("CONTENT_FROM_PREVIOUS_STEP").     *)
(* startswith, slicing, split, `in` and replace are modelled on atoms.     *)
(*                                                                         *)
(* Values.  A Python value is a tagged record, so that the integer 42 and  *)
(* the text "42" are different values.                                     *)
(***************************************************************************)
EXTENDS Integers, Sequences, FiniteSets, TLC

\* ------------------------------------------------------------------ bounds
\* Longest parameter text, in atoms, the resolution harness draws.
MaxLen == 4
\* Most variables the resolution harness puts in memory.
MaxVars == 2
\* Most tool calls in a plan, and most steps in a workflow.
MaxSteps == 2
\* Most runs of the workflow engine in one behaviour.
MaxRuns == 2
\* Most steps in a workflow that runs while another thread runs one.
MaxConcurrentSteps == 1
\* credentials in the pool of the key manager
MaxKeys == 2
\* requests_per_minute_limit, scaled down from the 55 of the source
MaxBudget == 2
\* how often the clock is advanced
MaxTicks == 3
\* get_key() calls counted in a row from construction
MaxStreak == 5
\* calls made on the key manager by the threads that call it at once
MaxConcurrentCalls == 2

\* ------------------------------------------------------------------ values
PyStr(s) == [tag |-> "str", s |-> s]
PyInt(n) == [tag |-> "int", n |-> n]
PyBool(b) == [tag |-> "bool", b |-> b]
PyNone == [tag |-> "none"]
PyDict(d) == [tag |-> "dict", d |-> d]

IsStr(v) == v.tag = "str"
IsDict(v) == v.tag = "dict"

\* ------------------------------------------------------------------ text
Digit(d) == <<"0", "1", "2", "3", "4", "5", "6", "7", "8", "9">>[d + 1]

RECURSIVE Digits(_)
\* str(n) of a non-negative int
Digits(n) == IF n < 10 THEN <<Digit(n)>> ELSE Digits(n \div 10) \o <<Digit(n % 10)>>

\* str(value)
StrOf(v) ==
    CASE v.tag = "str" -> v.s
      [] v.tag = "int" -> IF v.n < 0 THEN <<"-">> \o Digits(0 - v.n) ELSE Digits(v.n)
      [] v.tag = "bool" -> IF v.b THEN <<"True">> ELSE <<"False">>
      [] v.tag = "none" -> <<"None">>
      [] v.tag = "dict" -> <<"{..}">>

\* s.startswith('$')
StartsWithDollar(s) == Len(s) > 0 /\ s[1] = "$"

\* len(s.split()): the maximal runs of non-blank atoms
NumTokens(s) ==
    Cardinality({k \in 1..Len(s) : s[k] # " " /\ (k = 1 \/ s[k - 1] = " ")})

\* sub in s
Contains(s, sub) ==
    \E k \in 0..(Len(s) - Len(sub)) : SubSeq(s, k + 1, k + Len(sub)) = sub

RECURSIVE Replace(_, _, _)
\* s.replace(old, new), old not empty: leftmost, non-overlapping occurrences
Replace(s, old, new) ==
    IF Len(s) < Len(old) THEN s
    ELSE IF SubSeq(s, 1, Len(old)) = old
         THEN new \o Replace(SubSeq(s, Len(old) + 1, Len(s)), old, new)
         ELSE <<s[1]>> \o Replace(Tail(s), old, new)

\* ------------------------------------------------------------------ memory
\* A dict of variables, in insertion order: a sequence of entries
\* [name, value, by].  `by` records which invocation wrote the entry; the
\* program does not store it and no operation reads it.
MemNames(mem) == {mem[k].name : k \in 1..Len(mem)}
MemHas(mem, name) == name \in MemNames(mem)
MemGet(mem, name) == mem[CHOOSE k \in 1..Len(mem) : mem[k].name = name].value
MemBy(mem, name) == mem[CHOOSE k \in 1..Len(mem) : mem[k].name = name].by

\* mem[name] = value: an existing key keeps its position
MemPut(mem, name, value, by) ==
    LET e == [name |-> name, value |-> value, by |-> by]
    IN  IF MemHas(mem, name)
        THEN [k \in 1..Len(mem) |-> IF mem[k].name = name THEN e ELSE mem[k]]
        ELSE Append(mem, e)

\* ------------------------------------------------- parameter resolution
\* OrchestratorAgent._resolve_params, one value
OrchResolveValue(value, mem) ==
    IF IsStr(value) /\ StartsWithDollar(value.s)
    THEN LET var_name == Tail(value.s)
         IN  IF MemHas(mem, var_name) THEN MemGet(mem, var_name) ELSE value
    ELSE value

\* OrchestratorAgent._resolve_params
Orch_resolve_params(params, mem) ==
    [k \in DOMAIN params |-> OrchResolveValue(params[k], mem)]

RECURSIVE Interpolate(_, _)
\* WorkflowEngine._resolve_params, case 2: the loop over self.memory.items()
Interpolate(new_val, items) ==
    IF items = <<>> THEN new_val
    ELSE LET ref == <<"$">> \o items[1].name
         IN  Interpolate(IF Contains(new_val, ref)
                         THEN Replace(new_val, ref, StrOf(items[1].value))
                         ELSE new_val,
                         Tail(items))

\* EngineResolveValue without the exact-match case: every reference is interpolated
EngineResolveValueAlwaysInterpolates(v, mem) ==
    IF IsStr(v) /\ Contains(v.s, <<"$">>) THEN PyStr(Interpolate(v.s, mem)) ELSE v

\* WorkflowEngine._resolve_params, one value
EngineResolveValue(v, mem) ==
    IF IsStr(v)
    THEN IF Contains(v.s, <<"$">>)
         THEN IF StartsWithDollar(v.s) /\ NumTokens(v.s) = 1 /\ MemHas(mem, Tail(v.s))
              THEN MemGet(mem, Tail(v.s))
              ELSE PyStr(Interpolate(v.s, mem))
         ELSE v
    ELSE v

\* WorkflowEngine._resolve_params
Engine_resolve_params(params, mem) ==
    [k \in DOMAIN params |-> EngineResolveValue(params[k], mem)]

\* ------------------------------------------------------------------ state
VARIABLES
    \* OrchestratorAgent, one orchestrate() call
    client,          \* self.client is set (a Groq key was configured)
    pc,              \* where the orchestrate() call is
    user_input,      \* the text orchestrate() was called with
    plan,            \* parsed: the decoded planning output
    idx,             \* i of the loop of _execute_plan, steps done so far
    params,          \* the resolved params of the tool call in progress
    step_memory,     \* the local step_memory of _execute_plan
    results,         \* the local results of _execute_plan
    fb_call,         \* the tool call a fallback matcher is making
    ret,             \* what orchestrate() returned
    escaped,         \* the exception that left orchestrate(), or "none"
    \* observation of the call: not program state, never read by an action's guard
    trace,           \* what was done, in order: planning calls, resolutions, tool calls
    lifecycle        \* the plan lifecycle states the call went through

orch_vars == <<client, pc, user_input, plan, idx, params, step_memory, results,
               fb_call, ret, escaped, trace, lifecycle>>

VARIABLES
    \* WorkflowEngine, one instance; run() may be called from several threads
    memory,          \* self.memory
    e_pc,            \* per thread: where its run() call is
    e_steps,         \* per thread: the steps run() was called with
    e_i,             \* per thread: i of the loop, steps done so far
    e_params,        \* per thread: resolved_params of the step in progress
    e_log,           \* per thread: execution_log
    e_final,         \* per thread: final_result
    e_result,        \* per thread: result, what the last tool called returned
    e_ret,           \* per thread: what run() returned
    \* observation of the runs: not program state
    e_id,            \* per thread: the number of its run, 1 for the first run started
    e_started,       \* how many runs were started
    e_reads,         \* per thread: the runs whose writes its resolutions have read
    e_calls          \* per thread: the steps whose tool was called, in order

engine_vars == <<memory, e_pc, e_steps, e_i, e_params, e_log, e_final, e_result, e_ret,
                 e_id, e_started, e_reads, e_calls>>

VARIABLES
    \* a direct call of the two _resolve_params, as the unit test makes it
    h_params,        \* the params passed
    h_done,          \* which of the two resolvers has been called
    h_orch,          \* what OrchestratorAgent._resolve_params returned
    h_engine         \* what WorkflowEngine._resolve_params returned

harness_vars == <<h_params, h_done, h_orch, h_engine>>

VARIABLES
    \* APIKeyManager, the one api_key_manager; its methods may be called from
    \* several threads
    keys,                        \* self.keys
    current_index,               \* self.current_index
    request_counts,              \* self.request_counts, index -> count
    last_reset,                  \* self.last_reset, in seconds
    requests_per_minute_limit,   \* self.requests_per_minute_limit
    now,                         \* time.time(), in seconds since construction
    k_pc,            \* per thread: where its call is
    k_op,            \* per thread: the call in progress or last made
    k_local,         \* per thread: current_time, attempts, key, and the index and
                     \* count the += of line 53 has read
    k_ret,           \* per thread: what the call returned
    \* observation of the calls: not program state
    k_seen,          \* per thread: the call completed before this one started, and
                     \* the counts its loop started on
    k_obs            \* the last call completed, the clock ticks made, the get_key
                     \* calls in a row since construction and the slots they got,
                     \* whether a += wrote over a count that had changed since its
                     \* read, the calls made (counted up to MaxConcurrentCalls)

keys_vars == <<keys, current_index, request_counts, last_reset, requests_per_minute_limit,
               now, k_pc, k_op, k_local, k_ret, k_seen, k_obs>>

VARIABLES
    \* routines/routine_manager.py: the files it reads and writes
    r_custom,        \* data/routines.json: name -> routine
    r_presets,       \* routines/presets/<name>.json: the names that have a file
    r_ret,           \* the function last called, its argument and what it returned
    \* observation of the calls: not program state
    r_deleted        \* the names delete_routine has deleted and create_routine
                     \* has not created since

routine_vars == <<r_custom, r_presets, r_ret, r_deleted>>

vars == <<orch_vars, engine_vars, harness_vars, keys_vars, routine_vars>>

\* ------------------------------------------------------------ environment
\* self.tools_registry after load_tools(): the registered names
ToolsRegistry ==
    {"open_app", "close_app", "type_text", "press_key", "set_volume", "adjust_volume",
     "mute", "unmute", "set_brightness", "adjust_brightness", "lock_screen", "sleep",
     "shutdown", "restart", "search_web", "open_url", "calculate", "get_weather",
     "set_timer", "set_reminder", "get_time", "get_date", "get_disk_space",
     "get_battery", "search_file", "open_file_location", "search_files_by_type",
     "search_downloads", "type_on_screen", "type_multiline_text", "type_formatted_text",
     "clear_and_type", "get_clipboard", "find_contact", "smart_email_lookup",
     "schedule_meeting", "quick_meeting", "send_email_browser", "send_whatsapp",
     "whatsapp_call", "whatsapp_video_call", "summarize", "explain_code",
     "generate_code", "generate_content", "whats_on_screen", "analyze_screen",
     "get_screen_options", "analyze_document", "play_song_on_spotify",
     "spotify_play_pause", "spotify_next", "spotify_previous", "execute_routine",
     "list_routines"}

\* The names of the variables _execute_plan stores.
CONTENT_FROM_PREVIOUS_STEP == <<"CONTENT_FROM_PREVIOUS_STEP">>
LAST_CONTENT == <<"LAST_CONTENT">>
LAST_RESULT == <<"LAST_RESULT">>
LAST_MESSAGE == <<"LAST_MESSAGE">>

\* The tool calls the planning service may put in a plan: literal parameters,
\* whole-value references, a reference inside other text, a reference to a
\* variable nothing stores, and a tool the registry does not have.
ToolCalls ==
    {[tool |-> "generate_content", params |-> [topic |-> PyStr(<<"leave">>)]],
     [tool |-> "type_text", params |-> [text |-> PyStr(<<"$", "CONTENT_FROM_PREVIOUS_STEP">>)]],
     [tool |-> "set_volume", params |-> [level |-> PyStr(<<"$", "LAST_RESULT">>)]],
     [tool |-> "search_web",
      params |-> [query |-> PyStr(<<"about", " ", "$", "LAST_MESSAGE">>)]],
     [tool |-> "type_text", params |-> [text |-> PyStr(<<"$", "UNKNOWN">>)]],
     [tool |-> "fly_to_moon", params |-> [speed |-> PyInt(9)]]}

RECURSIVE SeqsUpTo(_, _)
\* the sequences over S of length at most n
SeqsUpTo(S, n) ==
    IF n = 0 THEN {<<>>}
    ELSE LET shorter == SeqsUpTo(S, n - 1)
         IN  shorter \cup {Append(q, x) : q \in shorter, x \in S}

\* The decoded planning outputs: thinking, tool_calls, response, needs_automation.
Plans ==
    {[thinking |-> "t", tool_calls |-> tc, response |-> <<>>, needs_automation |-> FALSE] :
        tc \in SeqsUpTo(ToolCalls, MaxSteps)}
    \cup {[thinking |-> "t", tool_calls |-> <<>>, response |-> <<"Sure">>,
           needs_automation |-> FALSE],
          [thinking |-> "t", tool_calls |-> <<>>, response |-> <<"I can automate it">>,
           needs_automation |-> TRUE]}

\* What a registered tool may return: a dict with some of content, result,
\* message, success, or something that is not a dict.
ToolResults ==
    {PyDict([content |-> PyStr(<<"Dear", " ", "Sir">>), success |-> PyBool(TRUE)]),
     PyDict([content |-> PyInt(42)]),
     PyDict([result |-> PyInt(10), message |-> PyStr(<<"10">>)]),
     PyDict([success |-> PyBool(FALSE), message |-> PyStr(<<"failed">>)]),
     PyNone}

\* str(e) of what a tool may raise; a tool's own upstream call may itself be
\* rate limited.
ToolErrors == {<<"boom">>, <<"Error code: ", "429">>}

\* What the planning call may do: return text, or raise.  `text` is str(e).
\* A status error of the service carries the response body in its text, and
\* the body of a rejected generation quotes what was generated.
PlanningErrors ==
    {[kind |-> "RateLimited", text |-> <<"Error code: ", "429", " - ", "Rate limit", " reached">>],
     [kind |-> "RateLimited", text |-> <<"rate limit", " exceeded">>],
     [kind |-> "AuthError", text |-> <<"Error code: ", "401", " - ", "Invalid API Key">>],
     [kind |-> "NetworkError", text |-> <<"Connection error.">>],
     [kind |-> "Other", text |-> <<"Error code: ", "400", " - ", "failed_generation", "429">>]}

\* e.lower() on the atoms that have upper-case letters
Lower(s) ==
    [k \in 1..Len(s) |->
        CASE s[k] = "Rate limit" -> "rate limit"
          [] s[k] = "Error code: " -> "error code: "
          [] s[k] = "Invalid API Key" -> "invalid api key"
          [] s[k] = "Connection error." -> "connection error."
          [] OTHER -> s[k]]

\* orchestrate: "429" in error_str or "rate limit" in error_str.lower()
IsRateLimitText(error_str) ==
    \/ Contains(error_str, <<"429">>)
    \/ Contains(Lower(error_str), <<"rate limit">>)

\* The texts orchestrate() is called with, as lower-case words.
Inputs ==
    {<<"set", "volume", "to", "42">>,
     <<"volume", "up">>,
     <<"open", "chrome">>,
     <<"what", "time", "is", "it">>,
     <<"weather", "in", "delhi">>,
     <<"hello">>}

\* What the planning call may return as message.content.  json.loads accepts
\* a JSON document and nothing else: not prose, not a document wrapped in a
\* markdown code fence.
ConversationalPlan ==
    [thinking |-> "t", tool_calls |-> <<>>, response |-> <<"Sure">>, needs_automation |-> FALSE]

Contents ==
    {[fence |-> FALSE, body |-> "json", plan |-> p] : p \in Plans}
    \cup {[fence |-> TRUE, body |-> "json", plan |-> ConversationalPlan],
          [fence |-> FALSE, body |-> "prose", plan |-> ConversationalPlan]}

\* json.loads(content) succeeds
JsonLoads(content) == ~content.fence /\ content.body = "json"

\* --------------------------------------------------------- _execute_plan
\* NewResults with the plan's response left out
NewResultsWithoutResponse(p, text) ==
    [success |-> TRUE, original_input |-> text, thinking |-> p.thinking,
     tool_calls |-> <<>>, response |-> <<>>, execution_log |-> <<>>,
     progress_steps |-> <<>>]

\* the results dict _execute_plan starts with
NewResults(p, text) ==
    [success |-> TRUE, original_input |-> text, thinking |-> p.thinking,
     tool_calls |-> <<>>, response |-> p.response, execution_log |-> <<>>,
     progress_steps |-> <<>>]

\* _add_progress_step (the timestamp is left out)
AddProgress(res, title) ==
    [res EXCEPT !.progress_steps = Append(@, title)]

\* len(x) is defined
HasLen(v) == v.tag \in {"str", "dict"}

\* lines 866-868: the content of a dict result is stored first
StoreContent(mem, result) ==
    IF IsDict(result) /\ "content" \in DOMAIN result.d
    THEN MemPut(MemPut(mem, CONTENT_FROM_PREVIOUS_STEP, result.d.content, 0),
                LAST_CONTENT, result.d.content, 0)
    ELSE mem

\* line 869: the print of len(result['content']) raises TypeError
ContentPrintRaises(result) ==
    IsDict(result) /\ "content" \in DOMAIN result.d /\ ~HasLen(result.d.content)

\* StoreResultAndMessage with "elif": the message only when there is no result
StoreResultOrMessage(mem, result) ==
    IF IsDict(result) /\ "result" \in DOMAIN result.d
    THEN MemPut(mem, LAST_RESULT, result.d.result, 0)
    ELSE IF IsDict(result) /\ "message" \in DOMAIN result.d
    THEN MemPut(mem, LAST_MESSAGE, result.d.message, 0)
    ELSE mem

\* lines 870-873
StoreResultAndMessage(mem, result) ==
    LET m1 == IF IsDict(result) /\ "result" \in DOMAIN result.d
              THEN MemPut(mem, LAST_RESULT, result.d.result, 0) ELSE mem
    IN  IF IsDict(result) /\ "message" \in DOMAIN result.d
        THEN MemPut(m1, LAST_MESSAGE, result.d.message, 0) ELSE m1

ErrorEntry(step, tool, text) ==
    [step |-> step, tool |-> tool, status |-> "error", error |-> text]

\* SuccessEntry with the status taken from the result: a result that
\* reports a failure is logged as an error
SuccessEntryByResult(step, tool, result) ==
    [step |-> step, tool |-> tool,
     status |-> IF IsDict(result) /\ "success" \in DOMAIN result.d
                   /\ result.d.success = PyBool(FALSE)
                THEN "error" ELSE "success",
     result |-> StrOf(result)]

SuccessEntry(step, tool, result) ==
    [step |-> step, tool |-> tool, status |-> "success", result |-> StrOf(result)]

\* the tool call the loop is at
CurrentCall == plan.tool_calls[idx + 1]

\* ----------------------------------------------------------- orchestrate
PlanFailed(kind) ==
    CASE kind = "RateLimited" -> "PlanFailed(RateLimited)"
      [] kind = "Parse" -> "PlanFailed(Parse)"
      [] OTHER -> "PlanFailed(Other)"

\* orchestrate, lines 339-343 and 674-684: without a client return at once,
\* otherwise build the prompt and issue the one planning call
Orchestrate(text) ==
    /\ pc = "idle"
    /\ e_started = 0
    /\ UNCHANGED <<engine_vars, harness_vars, keys_vars, routine_vars>>
    /\ user_input' = text
    /\ IF ~client
       THEN /\ pc' = "returned"
            /\ ret' = [success |-> FALSE, message |-> <<"Orchestrator offline (no Groq API key)">>]
            /\ lifecycle' = <<"Received", "Terminal">>
            /\ trace' = trace
       ELSE /\ pc' = "planning"
            /\ ret' = ret
            /\ lifecycle' = <<"Received", "Planning">>
            /\ trace' = Append(trace, [ev |-> "plan_call"])
    /\ UNCHANGED <<client, plan, idx, params, step_memory, results, fb_call, escaped>>

\* lines 686-688: the call returned and its content decodes
PlanParsed(content) ==
    /\ pc = "planning"
    /\ UNCHANGED <<engine_vars, harness_vars, keys_vars, routine_vars>>
    /\ JsonLoads(content)
    /\ plan' = content.plan
    /\ pc' = "plan_ready"
    /\ lifecycle' = Append(lifecycle, "PlanReady")
    /\ UNCHANGED <<client, user_input, idx, params, step_memory, results, fb_call, ret,
                   escaped, trace>>

\* lines 697-702: json.loads raised JSONDecodeError
PlanParseFailed(content) ==
    /\ pc = "planning"
    /\ UNCHANGED <<engine_vars, harness_vars, keys_vars, routine_vars>>
    /\ ~JsonLoads(content)
    /\ ret' = [success |-> FALSE, message |-> <<"Failed to parse orchestrator response">>,
               raw_response |-> content]
    /\ pc' = "returned"
    /\ lifecycle' = lifecycle \o <<PlanFailed("Parse"), "Terminal">>
    /\ UNCHANGED <<client, user_input, plan, idx, params, step_memory, results, fb_call,
                   escaped, trace>>

\* lines 703-713: the planning call raised e
PlanningRaises(e) ==
    /\ pc = "planning"
    /\ UNCHANGED <<engine_vars, harness_vars, keys_vars, routine_vars>>
    /\ IF IsRateLimitText(e.text)
       THEN /\ pc' = "fallback"
            /\ ret' = ret
            /\ lifecycle' = lifecycle \o <<PlanFailed(e.kind), "Fallback">>
       ELSE /\ pc' = "returned"
            /\ ret' = [success |-> FALSE, message |-> <<"Orchestrator error">> \o e.text]
            /\ lifecycle' = lifecycle \o <<PlanFailed(e.kind), "Terminal">>
    /\ UNCHANGED <<client, user_input, plan, idx, params, step_memory, results, fb_call,
                   escaped, trace>>

\* lines 691-692 and _handle_automation_request: the code generator reports
\* its own failures in its result
HandleAutomation(ok) ==
    /\ pc = "plan_ready"
    /\ UNCHANGED <<engine_vars, harness_vars, keys_vars, routine_vars>>
    /\ plan.needs_automation /\ plan.tool_calls = <<>>
    /\ ret' = [success |-> ok, message |-> <<"automation">>, thinking |-> plan.thinking]
    /\ pc' = "returned"
    /\ lifecycle' = lifecycle \o <<"Executing", IF ok THEN "Completed" ELSE "PartiallyFailed">>
    /\ trace' = Append(trace, [ev |-> "automation"])
    /\ UNCHANGED <<client, user_input, plan, idx, params, step_memory, results, fb_call,
                   escaped>>

\* line 695 and _execute_plan, lines 791-821: a plan without tool calls is
\* answered at once, otherwise the loop starts on an empty step_memory
ExecutePlan ==
    /\ pc = "plan_ready"
    /\ UNCHANGED <<engine_vars, harness_vars, keys_vars, routine_vars>>
    /\ ~(plan.needs_automation /\ plan.tool_calls = <<>>)
    /\ trace' = Append(trace, [ev |-> "execute"])
    /\ IF plan.tool_calls = <<>>
       THEN /\ results' = NewResults(plan, user_input)
            /\ ret' = results'
            /\ pc' = "returned"
            /\ lifecycle' = lifecycle \o <<"Executing", "Completed">>
            /\ UNCHANGED <<idx, step_memory>>
       ELSE /\ results' = IF Len(plan.tool_calls) > 1
                          THEN AddProgress(NewResults(plan, user_input), "Starting execution")
                          ELSE NewResults(plan, user_input)
            /\ step_memory' = <<>>
            /\ idx' = 0
            /\ pc' = "loop"
            /\ ret' = ret
            /\ lifecycle' = Append(lifecycle, "Executing")
    /\ UNCHANGED <<client, user_input, plan, params, fb_call, escaped>>

\* StepUnknownTool with the loop left at the unknown tool (break for continue)
StepUnknownToolBreaks ==
    /\ pc = "loop"
    /\ UNCHANGED <<engine_vars, harness_vars, keys_vars, routine_vars>>
    /\ idx < Len(plan.tool_calls)
    /\ CurrentCall.tool \notin ToolsRegistry
    /\ LET resolved == Orch_resolve_params(CurrentCall.params, step_memory)
           logged == [results EXCEPT
                         !.execution_log =
                             Append(@, ErrorEntry(idx + 1, CurrentCall.tool, <<"Unknown tool">>)),
                         !.success = FALSE]
       IN  /\ results' = AddProgress(AddProgress(logged, "Step"), "Step failed")
           /\ trace' = trace \o <<[ev |-> "resolve", step |-> idx + 1, params |-> resolved],
                                  [ev |-> "unknown", step |-> idx + 1]>>
    /\ idx' = Len(plan.tool_calls)
    /\ UNCHANGED <<client, pc, user_input, plan, params, step_memory, fb_call, ret,
                   escaped, lifecycle>>

\* lines 825-846: the tool of this step is not registered
StepUnknownTool ==
    /\ pc = "loop"
    /\ UNCHANGED <<engine_vars, harness_vars, keys_vars, routine_vars>>
    /\ idx < Len(plan.tool_calls)
    /\ CurrentCall.tool \notin ToolsRegistry
    /\ LET resolved == Orch_resolve_params(CurrentCall.params, step_memory)
           logged == [results EXCEPT
                         !.execution_log =
                             Append(@, ErrorEntry(idx + 1, CurrentCall.tool, <<"Unknown tool">>)),
                         !.success = FALSE]
       IN  /\ results' = AddProgress(AddProgress(logged, "Step"), "Step failed")
           /\ trace' = trace \o <<[ev |-> "resolve", step |-> idx + 1, params |-> resolved],
                                  [ev |-> "unknown", step |-> idx + 1]>>
    /\ idx' = idx + 1
    /\ UNCHANGED <<client, pc, user_input, plan, params, step_memory, fb_call, ret,
                   escaped, lifecycle>>

\* StepInvoke with the parameters resolved as they were before the loop
\* started, on an empty memory
StepInvokeResolvesEarly ==
    /\ pc = "loop"
    /\ UNCHANGED <<engine_vars, harness_vars, keys_vars, routine_vars>>
    /\ idx < Len(plan.tool_calls)
    /\ CurrentCall.tool \in ToolsRegistry
    /\ params' = Orch_resolve_params(CurrentCall.params, <<>>)
    /\ results' = AddProgress(results, "Step")
    /\ trace' = trace \o <<[ev |-> "resolve", step |-> idx + 1, params |-> params'],
                           [ev |-> "invoke", step |-> idx + 1, tool |-> CurrentCall.tool,
                            params |-> params']>>
    /\ pc' = "calling"
    /\ UNCHANGED <<client, user_input, plan, idx, step_memory, fb_call, ret, escaped,
                   lifecycle>>

\* lines 825-862: the parameters are resolved and the tool is called
StepInvoke ==
    /\ pc = "loop"
    /\ UNCHANGED <<engine_vars, harness_vars, keys_vars, routine_vars>>
    /\ idx < Len(plan.tool_calls)
    /\ CurrentCall.tool \in ToolsRegistry
    /\ params' = Orch_resolve_params(CurrentCall.params, step_memory)
    /\ results' = AddProgress(results, "Step")
    /\ trace' = trace \o <<[ev |-> "resolve", step |-> idx + 1, params |-> params'],
                           [ev |-> "invoke", step |-> idx + 1, tool |-> CurrentCall.tool,
                            params |-> params']>>
    /\ pc' = "calling"
    /\ UNCHANGED <<client, user_input, plan, idx, step_memory, fb_call, ret, escaped,
                   lifecycle>>

\* lines 862-891 (and 893-902 when the print of line 869 raises): the tool returned
ToolReturns(result) ==
    /\ pc = "calling"
    /\ UNCHANGED <<engine_vars, harness_vars, keys_vars, routine_vars>>
    /\ IF ContentPrintRaises(result)
       THEN /\ step_memory' = StoreContent(step_memory, result)
            /\ results' = AddProgress(
                   [results EXCEPT
                       !.execution_log =
                           Append(@, ErrorEntry(idx + 1, CurrentCall.tool,
                                                <<"Error executing", "no len()">>)),
                       !.success = FALSE],
                   "Step failed")
       ELSE /\ step_memory' = StoreResultAndMessage(StoreContent(step_memory, result), result)
            /\ results' = AddProgress(
                   [results EXCEPT
                       !.tool_calls =
                           Append(@, [tool |-> CurrentCall.tool, params |-> params,
                                      result |-> result]),
                       !.execution_log =
                           Append(@, SuccessEntry(idx + 1, CurrentCall.tool, result))],
                   "Step completed")
    /\ trace' = Append(trace, [ev |-> "return", step |-> idx + 1, result |-> result])
    /\ idx' = idx + 1
    /\ pc' = "loop"
    /\ UNCHANGED <<client, user_input, plan, params, fb_call, ret, escaped, lifecycle>>

\* ToolRaises with what the earlier steps stored thrown away
ToolRaisesForgets(err) ==
    /\ pc = "calling"
    /\ UNCHANGED <<engine_vars, harness_vars, keys_vars, routine_vars>>
    /\ results' = AddProgress(
           [results EXCEPT
               !.execution_log =
                   Append(@, ErrorEntry(idx + 1, CurrentCall.tool, <<"Error executing">> \o err)),
               !.success = FALSE],
           "Step failed")
    /\ trace' = Append(trace, [ev |-> "raise", step |-> idx + 1])
    /\ idx' = idx + 1
    /\ pc' = "loop"
    /\ step_memory' = <<>>
    /\ UNCHANGED <<client, user_input, plan, params, fb_call, ret, escaped, lifecycle>>

\* ToolRaises with the failed step tried again
ToolRaisesRetries(err) ==
    /\ pc = "calling"
    /\ UNCHANGED <<engine_vars, harness_vars, keys_vars, routine_vars>>
    /\ results' = AddProgress(
           [results EXCEPT
               !.execution_log =
                   Append(@, ErrorEntry(idx + 1, CurrentCall.tool, <<"Error executing">> \o err)),
               !.success = FALSE],
           "Step failed")
    /\ trace' = Append(trace, [ev |-> "raise", step |-> idx + 1])
    /\ pc' = "loop"
    /\ UNCHANGED <<client, user_input, plan, idx, params, step_memory, fb_call, ret, escaped,
                   lifecycle>>

\* ToolRaises with the failure logged but success left as it was
ToolRaisesKeepsSuccess(err) ==
    /\ pc = "calling"
    /\ UNCHANGED <<engine_vars, harness_vars, keys_vars, routine_vars>>
    /\ results' = AddProgress(
           [results EXCEPT
               !.execution_log =
                   Append(@, ErrorEntry(idx + 1, CurrentCall.tool, <<"Error executing">> \o err))],
           "Step failed")
    /\ trace' = Append(trace, [ev |-> "raise", step |-> idx + 1])
    /\ idx' = idx + 1
    /\ pc' = "loop"
    /\ UNCHANGED <<client, user_input, plan, params, step_memory, fb_call, ret, escaped,
                   lifecycle>>

\* lines 893-902: the tool raised
ToolRaises(err) ==
    /\ pc = "calling"
    /\ UNCHANGED <<engine_vars, harness_vars, keys_vars, routine_vars>>
    /\ results' = AddProgress(
           [results EXCEPT
               !.execution_log =
                   Append(@, ErrorEntry(idx + 1, CurrentCall.tool, <<"Error executing">> \o err)),
               !.success = FALSE],
           "Step failed")
    /\ trace' = Append(trace, [ev |-> "raise", step |-> idx + 1])
    /\ idx' = idx + 1
    /\ pc' = "loop"
    /\ UNCHANGED <<client, user_input, plan, params, step_memory, fb_call, ret, escaped,
                   lifecycle>>

\* lines 904-916: the loop is over, the results are returned
FinishPlan ==
    /\ pc = "loop"
    /\ UNCHANGED <<engine_vars, harness_vars, keys_vars, routine_vars>>
    /\ idx = Len(plan.tool_calls)
    /\ results' = AddProgress(results, "Execution finished")
    /\ ret' = results'
    /\ pc' = "returned"
    /\ lifecycle' = Append(lifecycle, IF results.success THEN "Completed" ELSE "PartiallyFailed")
    /\ UNCHANGED <<client, user_input, plan, idx, params, step_memory, fb_call, escaped,
                   trace>>

\* ------------------------------------------------------ _handle_rate_limit
\* The pieces of text a word contains that a matcher looks for (`in` on str
\* is substring search).
Parts(w) ==
    {w} \cup (CASE w = "times" -> {"time"}
                [] w = "excel" -> {"x"}
                [] w = "slowly" -> {"slow"}
                [] OTHER -> {})

\* needle in user_lower
InText(words, needle) == \E k \in 1..Len(words) : needle \in Parts(words[k])

\* any(word in user_lower for word in needles)
AnyIn(words, needles) == \E n \in needles : InText(words, n)

\* "a b" in user_lower
Adjacent(words, a, b) ==
    \E k \in 1..(Len(words) - 1) : a \in Parts(words[k]) /\ b \in Parts(words[k + 1])

\* the words that are decimal numbers, and int(word)
NumVal(w) ==
    CASE w = "42" -> 42
      [] w = "7" -> 7
      [] OTHER -> -1

IsNumber(w) == NumVal(w) >= 0

\* the leftmost of the positions S
Leftmost(S) == CHOOSE k \in S : \A j \in S : k <= j

\* re.search(r'(\d+)', user_input): the first run of digits
FirstNumber(words) == words[Leftmost({k \in 1..Len(words) : IsNumber(words[k])})]

\* the first element of list that occurs in the text
FirstIn(words, list) ==
    list[Leftmost({k \in 1..Len(list) : InText(words, list[k])})]

Cities == <<"mumbai", "delhi", "bangalore", "chennai", "kolkata", "pune", "hyderabad">>

NoMatch == [matcher |-> "none", tool |-> "none", arg |-> PyNone, speed |-> "none"]

\* a matcher that answers, calling tool with arg, or calling no tool
Matched(matcher, tool, arg) == [matcher |-> matcher, tool |-> tool, arg |-> arg, speed |-> "none"]

\* lines 1000-1016: application launch
AppMatch(words) ==
    IF InText(words, "open") /\ AnyIn(words, {"chrome", "notepad", "calculator", "spotify"})
    THEN Matched("app", "open_app",
                 PyStr(<<FirstIn(words, <<"chrome", "notepad", "calculator", "spotify",
                                          "word", "excel">>)>>))
    ELSE NoMatch

\* VolumeMatch with the level left at a default of 50
VolumeMatchDefaultLevel(words) ==
    IF InText(words, "volume") /\ \E k \in 1..Len(words) : IsNumber(words[k])
    THEN Matched("volume", "set_volume", PyInt(50))
    ELSE NoMatch

\* lines 1019-1031: volume; without a number in the text the matcher falls through
VolumeMatch(words) ==
    IF InText(words, "volume") /\ \E k \in 1..Len(words) : IsNumber(words[k])
    THEN Matched("volume", "set_volume", PyInt(NumVal(FirstNumber(words))))
    ELSE NoMatch

\* lines 1034-1042: time
TimeMatch(words) ==
    IF AnyIn(words, {"time", "clock"})
    THEN Matched("time", "get_time", PyNone)
    ELSE NoMatch

\* lines 1045-1061: weather, of the first city named or of mumbai
WeatherMatch(words) ==
    IF InText(words, "weather")
    THEN Matched("weather", "get_weather",
                 PyStr(<<IF \E k \in 1..Len(Cities) : InText(words, Cities[k])
                         THEN FirstIn(words, Cities) ELSE "mumbai">>))
    ELSE NoMatch

\* line 1068, math_pattern: where a number, an operator and a number follow each other
MathAt(words) ==
    {k \in 1..(Len(words) - 2) :
        /\ IsNumber(words[k])
        /\ words[k + 1] \in {"plus", "+", "times", "*", "x", "minus", "-", "/"}
        /\ IsNumber(words[k + 2])}
    \cup {k \in 1..(Len(words) - 3) :
        /\ IsNumber(words[k])
        /\ words[k + 1] = "divided" /\ words[k + 2] = "by"
        /\ IsNumber(words[k + 3])}

\* lines 1071-1083: the operation is chosen by what the text contains
Calculation(words) ==
    LET k == Leftmost(MathAt(words))
        num1 == NumVal(words[k])
        num2 == NumVal(IF words[k + 1] = "divided" THEN words[k + 3] ELSE words[k + 2])
    IN  IF AnyIn(words, {"plus", "+"}) THEN PyInt(num1 + num2)
        ELSE IF AnyIn(words, {"times", "*", "x"}) THEN PyInt(num1 * num2)
        ELSE IF AnyIn(words, {"minus", "-"}) THEN PyInt(num1 - num2)
        ELSE IF num2 # 0 THEN [tag |-> "float", num |-> num1, den |-> num2]
        ELSE PyStr(<<"undefined">>)

\* lines 1064-1090: calculator; it computes by itself and calls no tool
CalculatorMatch(words) ==
    IF /\ AnyIn(words, {"calculate", "math", "plus", "minus", "times", "multiply", "divide"})
       /\ MathAt(words) # {}
    THEN Matched("calculator", "none", Calculation(words))
    ELSE NoMatch

\* the words after the first word w that has words after it, or <<>>
After(words, w) ==
    LET K == {k \in 1..(Len(words) - 1) : words[k] = w}
    IN  IF K = {} THEN <<>> ELSE SubSeq(words, Leftmost(K) + 1, Len(words))

\* r'(?:my |the )?(.+?)': one of the leading words is dropped when more follows
DropLeading(rest, leading) ==
    IF Len(rest) >= 2 /\ rest[1] \in leading THEN Tail(rest) ELSE rest

\* r'(.+?)(?:\s+file)?$': a last word "file" is dropped when more precedes it
DropFile(rest) ==
    IF Len(rest) >= 2 /\ rest[Len(rest)] = "file" THEN SubSeq(rest, 1, Len(rest) - 1) ELSE rest

\* lines 1093-1132: search of the downloads folder
\* line 1099, r'find (.+?) in downloads': where "find" starts a match
\* line 1112, r'search downloads for (.+?)$'
DownloadsMatch(words) ==
    LET FindInDownloadsAt ==
            {k \in 1..Len(words) :
                /\ words[k] = "find"
                /\ \E j \in (k + 2)..(Len(words) - 1) :
                       words[j] = "in" /\ words[j + 1] = "downloads"}
        SearchDownloadsAt ==
            {k \in 1..(Len(words) - 3) :
                words[k] = "search" /\ words[k + 1] = "downloads" /\ words[k + 2] = "for"}
    IN  IF InText(words, "find")
        THEN IF FindInDownloadsAt # {}
             THEN LET k == Leftmost(FindInDownloadsAt)
                      j == Leftmost({i \in (k + 2)..(Len(words) - 1) :
                                        words[i] = "in" /\ words[i + 1] = "downloads"})
                  IN  Matched("files", "search_downloads", PyStr(SubSeq(words, k + 1, j - 1)))
             ELSE Matched("files", "none",
                          PyStr(<<"What file do you want to find in Downloads?">>))
        ELSE IF Adjacent(words, "search", "downloads") /\ SearchDownloadsAt # {}
        THEN Matched("files", "search_downloads",
                     PyStr(SubSeq(words, Leftmost(SearchDownloadsAt) + 3, Len(words))))
        ELSE NoMatch

\* lines 1135-1170: search of files, tried only when the text is not about downloads
FileSearchMatch(words) ==
    IF InText(words, "find")
    THEN IF After(words, "find") # <<>>
         THEN Matched("files", "search_file",
                      PyStr(DropFile(DropLeading(After(words, "find"), {"my"}))))
         ELSE NoMatch
    ELSE IF Adjacent(words, "search", "for")
            /\ \E k \in 1..(Len(words) - 2) : words[k] = "search" /\ words[k + 1] = "for"
    THEN LET k == Leftmost({i \in 1..(Len(words) - 2) :
                               words[i] = "search" /\ words[i + 1] = "for"})
         IN  Matched("files", "search_file", PyStr(DropFile(SubSeq(words, k + 2, Len(words)))))
    ELSE NoMatch

\* lines 1093 and 1135: the if and its elif
FilesMatch(words) ==
    IF InText(words, "downloads") /\ AnyIn(words, {"find", "search", "locate"})
    THEN DownloadsMatch(words)
    ELSE IF /\ AnyIn(words, {"find", "search", "locate"})
            /\ AnyIn(words, {"file", "document", "folder"})
    THEN FileSearchMatch(words)
    ELSE NoMatch

\* lines 1187-1193, re.sub(r'\b(slowly|slow)\b:?\s*', '', text): the words are removed
Without(text, removed) == SelectSeq(text, LAMBDA w : w \notin removed)

\* lines 1173-1208: text entry, at the speed the text asks for
TypeMatch(words) ==
    IF InText(words, "type") /\ ~AnyIn(words, {"file", "document"})
       /\ After(words, "type") # <<>>
    THEN LET text == After(words, "type")
             speed == IF AnyIn(text, {"slowly", "slow"}) THEN "slow"
                      ELSE IF AnyIn(text, {"fast", "quickly"}) THEN "fast"
                      ELSE "normal"
             text_to_type == IF speed = "slow" THEN Without(text, {"slowly", "slow"})
                             ELSE IF speed = "fast" THEN Without(text, {"fast", "quickly"})
                             ELSE text
         IN  IF text_to_type # <<>>
             THEN [Matched("type", "type_on_screen", PyStr(text_to_type)) EXCEPT !.speed = speed]
             ELSE NoMatch
    ELSE NoMatch

\* lines 1211-1246: document analysis
AnalyzeMatch(words) ==
    IF /\ AnyIn(words, {"analyze", "analysis"})
       /\ AnyIn(words, {"document", "file", "pdf", "report", "paper"})
    THEN IF Adjacent(words, "analyze", "document")
         THEN LET K == {k \in 1..(Len(words) - 2) :
                           words[k] = "analyze" /\ words[k + 1] = "document"}
              IN  IF K # {}
                  THEN Matched("analyze", "analyze_document",
                               PyStr(SubSeq(words, Leftmost(K) + 2, Len(words))))
                  ELSE NoMatch
         ELSE IF InText(words, "analyze") /\ AnyIn(words, {"file", "pdf", "report", "paper"})
                 /\ After(words, "analyze") # <<>>
         THEN Matched("analyze", "analyze_document",
                      PyStr(DropLeading(After(words, "analyze"), {"my", "the"})))
         ELSE NoMatch
    ELSE NoMatch

\* FallbackMatch with the time matcher tried first
FallbackMatchTimeFirst(words) ==
    IF TimeMatch(words) # NoMatch THEN TimeMatch(words)
    ELSE IF AppMatch(words) # NoMatch THEN AppMatch(words)
    ELSE IF VolumeMatch(words) # NoMatch THEN VolumeMatch(words)
    ELSE IF WeatherMatch(words) # NoMatch THEN WeatherMatch(words)
    ELSE IF CalculatorMatch(words) # NoMatch THEN CalculatorMatch(words)
    ELSE IF FilesMatch(words) # NoMatch THEN FilesMatch(words)
    ELSE IF TypeMatch(words) # NoMatch THEN TypeMatch(words)
    ELSE AnalyzeMatch(words)

\* lines 997-1246: the matchers in the order the code tries them; a matcher
\* whose pattern does not complete falls through to the next one
FallbackMatch(words) ==
    IF AppMatch(words) # NoMatch THEN AppMatch(words)
    ELSE IF VolumeMatch(words) # NoMatch THEN VolumeMatch(words)
    ELSE IF TimeMatch(words) # NoMatch THEN TimeMatch(words)
    ELSE IF WeatherMatch(words) # NoMatch THEN WeatherMatch(words)
    ELSE IF CalculatorMatch(words) # NoMatch THEN CalculatorMatch(words)
    ELSE IF FilesMatch(words) # NoMatch THEN FilesMatch(words)
    ELSE IF TypeMatch(words) # NoMatch THEN TypeMatch(words)
    ELSE AnalyzeMatch(words)

\* The texts _handle_rate_limit is given when the planning service cannot
\* be reached: those of Inputs, texts for the other matchers, and texts two
\* matchers look for.
FallbackInputs ==
    Inputs \cup
    {<<"open", "chrome", "volume", "42">>,
     <<"volume", "7", "time">>,
     <<"volume", "clock">>,
     <<"what", "is", "7", "times", "42">>,
     <<"7", "plus", "42">>,
     <<"calculate", "weather">>,
     <<"find", "setup", "in", "downloads">>,
     <<"find", "in", "downloads">>,
     <<"search", "for", "file", "in", "downloads">>,
     <<"find", "my", "resume", "file">>,
     <<"type", "hello", "slowly">>,
     <<"type", "the", "report", "file">>,
     <<"analyze", "my", "report">>,
     <<"analyze", "document", "report">>}

\* What a tool called by a matcher may return.
FallbackResults ==
    {PyDict([success |-> PyBool(TRUE), message |-> PyStr(<<"done">>)]),
     PyDict([success |-> PyBool(FALSE), message |-> PyStr(<<"failed">>)]),
     PyDict([success |-> PyBool(TRUE), result |-> PyStr(<<"10:30 AM">>)])}

\* result.get(key, default)
DictGet(result, key, default) ==
    IF key \in DOMAIN result.d THEN result.d[key] ELSE default

\* RateLimitMessage without the delay to retry after
RateLimitMessageWithoutRetry ==
    [success |-> FALSE, message |-> <<"Rate limit reached. Please wait a moment and try again.">>,
     response |-> <<"I'm currently experiencing high usage.">>,
     rate_limited |-> TRUE]

\* lines 1248-1255
RateLimitMessage ==
    [success |-> FALSE, message |-> <<"Rate limit reached. Please wait a moment and try again.">>,
     response |-> <<"I'm currently experiencing high usage.">>,
     rate_limited |-> TRUE, retry_after |-> 60]

\* lines 997-1255, up to the tool call of the matcher that matched; the
\* calculator (1085-1090) and the downloads matcher without a file name
\* (1104-1109) return at once
FallbackDispatch ==
    /\ pc = "fallback"
    /\ UNCHANGED <<engine_vars, harness_vars, keys_vars, routine_vars>>
    /\ LET m == FallbackMatch(user_input)
       IN  IF m.matcher = "none"
           THEN /\ ret' = RateLimitMessage
                /\ pc' = "returned"
                /\ lifecycle' = Append(lifecycle, "Terminal")
                /\ UNCHANGED <<fb_call, trace>>
           ELSE IF m.tool = "none"
           THEN /\ ret' = [success |-> m.matcher = "calculator", message |-> m.arg,
                           response |-> <<m.matcher>>, fallback |-> TRUE]
                /\ pc' = "returned"
                /\ lifecycle' = Append(lifecycle, "Degraded")
                /\ UNCHANGED <<fb_call, trace>>
           ELSE /\ fb_call' = m
                /\ pc' = "fb_calling"
                /\ trace' = Append(trace, [ev |-> "fallback_invoke", tool |-> m.tool,
                                           arg |-> m.arg])
                /\ UNCHANGED <<ret, lifecycle>>
    /\ UNCHANGED <<client, user_input, plan, idx, params, step_memory, results, escaped>>

\* the return statement of the matcher: lines 1011-1016, 1026-1031, 1037-1042,
\* 1056-1061, 1127-1132, 1165-1170, 1203-1208, 1241-1246
FallbackToolReturns(result) ==
    /\ pc = "fb_calling"
    /\ UNCHANGED <<engine_vars, harness_vars, keys_vars, routine_vars>>
    /\ ret' = [success |-> IF fb_call.matcher = "time" THEN TRUE
                           ELSE DictGet(result, "success", PyBool(FALSE)).b,
               message |-> StrOf(DictGet(result, IF fb_call.matcher = "time" THEN "result"
                                                 ELSE "message", PyStr(<<"default">>))),
               response |-> <<fb_call.matcher>>,
               fallback |-> TRUE]
    /\ pc' = "returned"
    /\ lifecycle' = Append(lifecycle, "Degraded")
    /\ UNCHANGED <<client, user_input, plan, idx, params, step_memory, results, fb_call,
                   escaped, trace>>

\* The tool of the matcher raised.  No matcher has a try block, and
\* _handle_rate_limit is called from orchestrate's except clause, so nothing
\* catches the exception: it leaves orchestrate.
FallbackToolRaises(err) ==
    /\ pc = "fb_calling"
    /\ UNCHANGED <<engine_vars, harness_vars, keys_vars, routine_vars>>
    /\ escaped' = err
    /\ pc' = "raised"
    /\ UNCHANGED <<client, user_input, plan, idx, params, step_memory, results, fb_call,
                   ret, lifecycle, trace>>

\* ------------------------------------------------------- WorkflowEngine
\* The threads that may call run() on the one engine.
Threads == {1, 2}

\* tool_registry of run(), lines 45-53
EngineRegistry ==
    {"search_web", "summarize", "send_email_browser", "open_app", "calculate", "weather"}

\* The steps a workflow is made of: tool, params, store_result ("" when None).
EngineSteps ==
    {[tool |-> "calculate", params |-> [expression |-> PyStr(<<"5", "+", "5">>)],
      store_result |-> <<"step1">>],
     [tool |-> "calculate",
      params |-> [expression |-> PyStr(<<"$", "step1", " ", "+", " ", "2">>)],
      store_result |-> <<"$", "final">>],
     [tool |-> "summarize", params |-> [text |-> PyStr(<<"$", "step1">>)],
      store_result |-> <<>>],
     [tool |-> "translate", params |-> [text |-> PyStr(<<"hi">>)],
      store_result |-> <<"out">>]}

Workflows == SeqsUpTo(EngineSteps, MaxSteps)

ConcurrentWorkflows == SeqsUpTo(EngineSteps, MaxConcurrentSteps)

\* What a tool of the engine may return.
EngineResults ==
    {PyDict([result |-> PyInt(10), success |-> PyBool(TRUE)]),
     PyDict([summary |-> PyStr(<<"short">>), result |-> PyStr(<<"long">>)]),
     PyStr(<<"plain">>)}

\* tools/productivity/calculator.py ------------------------------------
DigitAtoms == <<"0", "1", "2", "3", "4", "5", "6", "7", "8", "9">>

IsDigitAtom(a) == \E d \in 1..10 : DigitAtoms[d] = a

DigitVal(a) == (CHOOSE d \in 1..10 : DigitAtoms[d] = a) - 1

RECURSIVE evaluate_expression(_, _, _, _)
\* evaluate_expression on a text of digits, "+" and blanks: the sum, or -1
\* when eval raises (a name, a character that is not allowed, two numbers
\* without an operator, no operand at the end).  mode is "need" before an
\* operand, "num" inside a number, "done" after a number and a blank.
evaluate_expression(expr, total, cur, mode) ==
    IF expr = <<>>
    THEN IF mode = "need" THEN -1 ELSE total + cur
    ELSE LET a == Head(expr)
             rest == Tail(expr)
         IN  IF IsDigitAtom(a)
             THEN IF mode = "done" \/ (mode = "num" /\ cur = 0) THEN -1
                  ELSE evaluate_expression(rest, total, cur * 10 + DigitVal(a), "num")
             ELSE IF a = "+"
             THEN evaluate_expression(rest, total + cur, 0, "need")
             ELSE IF a = " "
             THEN evaluate_expression(rest, total, cur, IF mode = "num" THEN "done" ELSE mode)
             ELSE -1

\* calculate(expression), lines 36-71: the result dict, or the failure dict
\* of its except clauses (also for an expression that is not a str)
calculate(expression) ==
    LET n == IF IsStr(expression) THEN evaluate_expression(expression.s, 0, 0, "need") ELSE -1
    IN  IF n >= 0
        THEN PyDict([success |-> PyBool(TRUE), result |-> PyInt(n),
                     message |-> PyStr(StrOf(expression) \o <<" = ">> \o Digits(n))])
        ELSE PyDict([success |-> PyBool(FALSE), message |-> PyStr(<<"Could not calculate">>),
                     error |-> PyStr(<<"invalid">>)])

\* ValueToStore without the unwrapping: the result as the tool returned it
ValueToStoreWhole(result) == result

\* lines 74-78: what of the result is stored and returned
ValueToStore(result) ==
    IF IsDict(result)
    THEN IF "summary" \in DOMAIN result.d THEN result.d.summary
         ELSE IF "response" \in DOMAIN result.d THEN result.d.response
         ELSE IF "result" \in DOMAIN result.d THEN result.d.result
         ELSE result
    ELSE result

RECURSIVE InterpolateReads(_, _)
\* the runs whose entries the loop of case 2 substitutes into new_val
InterpolateReads(new_val, items) ==
    IF items = <<>> THEN {}
    ELSE LET ref == <<"$">> \o items[1].name
         IN  IF Contains(new_val, ref)
             THEN {items[1].by}
                  \cup InterpolateReads(Replace(new_val, ref, StrOf(items[1].value)),
                                        Tail(items))
             ELSE InterpolateReads(new_val, Tail(items))

\* the runs whose entries WorkflowEngine._resolve_params uses for one value
EngineValueReads(v, mem) ==
    IF IsStr(v) /\ Contains(v.s, <<"$">>)
    THEN IF StartsWithDollar(v.s) /\ NumTokens(v.s) = 1 /\ MemHas(mem, Tail(v.s))
         THEN {MemBy(mem, Tail(v.s))}
         ELSE InterpolateReads(v.s, mem)
    ELSE {}

EngineReads(ps, mem) == UNION {EngineValueReads(ps[k], mem) : k \in DOMAIN ps}

\* the step the loop of thread r is at
EStep(r) == e_steps[r][e_i[r] + 1]

\* run(), lines 36-55: a new run clears self.memory and its own locals
EngineRun(r, steps) ==
    /\ pc = "idle"
    /\ e_pc[r] \in {"idle", "returned"}
    /\ e_started < MaxRuns
    /\ memory' = <<>>
    /\ e_pc' = [e_pc EXCEPT ![r] = "loop"]
    /\ e_steps' = [e_steps EXCEPT ![r] = steps]
    /\ e_i' = [e_i EXCEPT ![r] = 0]
    /\ e_params' = [e_params EXCEPT ![r] = <<>>]
    /\ e_log' = [e_log EXCEPT ![r] = <<>>]
    /\ e_final' = [e_final EXCEPT ![r] = PyNone]
    /\ e_result' = [e_result EXCEPT ![r] = PyNone]
    /\ e_ret' = [e_ret EXCEPT ![r] = <<>>]
    /\ e_started' = e_started + 1
    /\ e_id' = [e_id EXCEPT ![r] = e_started + 1]
    /\ e_reads' = [e_reads EXCEPT ![r] = {}]
    /\ e_calls' = [e_calls EXCEPT ![r] = <<>>]
    /\ UNCHANGED <<orch_vars, harness_vars, keys_vars, routine_vars>>

\* lines 57-64 and 95-106: the tool is unknown, ValueError is raised and
\* caught, and run() returns at this step
EngineStepUnknown(r) ==
    /\ e_pc[r] = "loop"
    /\ e_i[r] < Len(e_steps[r])
    /\ EStep(r).tool \notin EngineRegistry
    /\ e_reads' = [e_reads EXCEPT ![r] = @ \cup EngineReads(EStep(r).params, memory)]
    /\ e_log' = [e_log EXCEPT ![r] =
                     Append(@, ErrorEntry(e_i[r] + 1, EStep(r).tool, <<"Unknown tool">>))]
    /\ e_ret' = [e_ret EXCEPT ![r] =
                     [success |-> FALSE, message |-> <<"Workflow failed at step">>,
                      log |-> e_log'[r]]]
    /\ e_pc' = [e_pc EXCEPT ![r] = "returned"]
    /\ UNCHANGED <<memory, e_steps, e_i, e_params, e_final, e_result, e_id, e_started,
                   e_calls>>
    /\ UNCHANGED <<orch_vars, harness_vars, keys_vars, routine_vars>>

\* lines 57-70: the parameters are resolved from self.memory and the tool is called
EngineStepInvoke(r) ==
    /\ e_pc[r] = "loop"
    /\ e_i[r] < Len(e_steps[r])
    /\ EStep(r).tool \in EngineRegistry
    /\ e_params' = [e_params EXCEPT ![r] = Engine_resolve_params(EStep(r).params, memory)]
    /\ e_reads' = [e_reads EXCEPT ![r] = @ \cup EngineReads(EStep(r).params, memory)]
    /\ e_calls' = [e_calls EXCEPT ![r] = Append(@, e_i[r] + 1)]
    /\ e_pc' = [e_pc EXCEPT ![r] = "calling"]
    /\ UNCHANGED <<memory, e_steps, e_i, e_log, e_final, e_result, e_ret, e_id, e_started>>
    /\ UNCHANGED <<orch_vars, harness_vars, keys_vars, routine_vars>>

\* lines 72-93: what run() does with the result of the tool
EngineStore(r, result) ==
    /\ e_result' = [e_result EXCEPT ![r] = result]
    /\ memory' = IF EStep(r).store_result # <<>>
                 THEN MemPut(memory, Replace(EStep(r).store_result, <<"$">>, <<>>),
                             ValueToStore(result), e_id[r])
                 ELSE memory
    /\ e_final' = [e_final EXCEPT ![r] = ValueToStore(result)]
    /\ e_log' = [e_log EXCEPT ![r] = Append(@, SuccessEntry(e_i[r] + 1, EStep(r).tool, result))]
    /\ e_i' = [e_i EXCEPT ![r] = @ + 1]
    /\ e_pc' = [e_pc EXCEPT ![r] = "loop"]
    /\ UNCHANGED <<e_steps, e_params, e_ret, e_id, e_started, e_reads, e_calls>>
    /\ UNCHANGED <<orch_vars, harness_vars, keys_vars, routine_vars>>

\* lines 70-93: a tool other than calculate returned; its value is stored
\* under store_result
EngineToolReturns(r, result) ==
    /\ e_pc[r] = "calling"
    /\ EStep(r).tool # "calculate"
    /\ EngineStore(r, result)

\* lines 70-93 with tools/productivity/calculator.py: calculate returned
EngineCalculateReturns(r) ==
    /\ e_pc[r] = "calling"
    /\ EStep(r).tool = "calculate"
    /\ EngineStore(r, calculate(e_params[r].expression))

\* lines 95-106: the tool raised; the error is logged and run() returns at
\* this step.  calculate catches what its evaluation raises.
EngineToolRaises(r, err) ==
    /\ e_pc[r] = "calling"
    /\ EStep(r).tool # "calculate"
    /\ e_log' = [e_log EXCEPT ![r] = Append(@, ErrorEntry(e_i[r] + 1, EStep(r).tool, err))]
    /\ e_ret' = [e_ret EXCEPT ![r] =
                     [success |-> FALSE, message |-> <<"Workflow failed at step">>,
                      log |-> e_log'[r]]]
    /\ e_pc' = [e_pc EXCEPT ![r] = "returned"]
    /\ UNCHANGED <<memory, e_steps, e_i, e_params, e_final, e_result, e_id, e_started,
                   e_reads, e_calls>>
    /\ UNCHANGED <<orch_vars, harness_vars, keys_vars, routine_vars>>

\* lines 108-113: every step succeeded
EngineFinish(r) ==
    /\ e_pc[r] = "loop"
    /\ e_i[r] = Len(e_steps[r])
    /\ e_ret' = [e_ret EXCEPT ![r] =
                     [success |-> TRUE, message |-> <<"Workflow completed">>,
                      result |-> e_final[r], log |-> e_log[r]]]
    /\ e_pc' = [e_pc EXCEPT ![r] = "returned"]
    /\ UNCHANGED <<memory, e_steps, e_i, e_params, e_log, e_final, e_result, e_id,
                   e_started, e_reads, e_calls>>
    /\ UNCHANGED <<orch_vars, harness_vars, keys_vars, routine_vars>>

\* ------------------------------------------- _resolve_params called directly
\* The names the harness stores values under: one is a prefix of another.
HarnessNames == {<<"a">>, <<"a", "b">>, <<"city">>}

\* The values the harness stores: a number, a text, a text that is itself a reference.
HarnessValues == {PyInt(42), PyStr(<<"Mumbai">>), PyStr(<<"$", "a">>)}

\* The atoms the harness builds parameter texts of.
HarnessAtoms == {"$", " ", "a", "b"}

\* Texts of the unit test and of the documented cases.
HarnessExamples ==
    {<<"Weather in", " ", "$", "city", " ", "today">>,
     <<"$", "city">>,
     <<"$", "city", " ", "and", " ", "$", "city">>,
     <<"$", "UNKNOWN">>}

RECURSIVE MemoriesUpTo(_)
\* the memories of at most n variables, in every insertion order
MemoriesUpTo(n) ==
    IF n = 0 THEN {<<>>}
    ELSE LET smaller == MemoriesUpTo(n - 1)
         IN  smaller \cup
             {Append(m, [name |-> nm, value |-> v, by |-> 0]) :
                 m \in {x \in smaller : Len(x) = n - 1},
                 nm \in HarnessNames, v \in HarnessValues}

HarnessMemories == {m \in MemoriesUpTo(MaxVars) : Cardinality(MemNames(m)) = Len(m)}

HarnessParams ==
    {[p |-> PyStr(t)] : t \in SeqsUpTo(HarnessAtoms, MaxLen) \cup HarnessExamples}
    \cup {[p |-> PyInt(7)]}

\* OrchestratorAgent._resolve_params(h_params, memory)
HarnessOrchResolve ==
    /\ "orchestrator" \notin h_done
    /\ h_orch' = Orch_resolve_params(h_params, memory)
    /\ h_done' = h_done \cup {"orchestrator"}
    /\ UNCHANGED <<h_params, h_engine, orch_vars, engine_vars, keys_vars, routine_vars>>

\* engine.memory = memory; engine._resolve_params(h_params)
HarnessEngineResolve ==
    /\ "engine" \notin h_done
    /\ h_engine' = Engine_resolve_params(h_params, memory)
    /\ h_done' = h_done \cup {"engine"}
    /\ UNCHANGED <<h_params, h_orch, orch_vars, engine_vars, keys_vars, routine_vars>>

\* ------------------------------------------------- config/api_keys.py
\* line 44: the length of the window, in seconds
WindowSeconds == 60

\* settings.gemini_keys: a pool of n credentials
Pool(n) == [i \in 1..n |-> PyStr(<<"key", Digit(i - 1)>>)]

\* line 27 and line 45: {i: 0 for i in range(len(self.keys))}
ZeroCounts == [i \in 0..(Len(keys) - 1) |-> 0]

\* the arguments mark_rate_limited is called with: None, an index of the
\* pool, an index beyond it
KeyIndexArgs == {PyNone} \cup {PyInt(i) : i \in 0..MaxKeys}

\* by how many seconds the clock is advanced at once
TickSteps == {30}

NoCall == [op |-> "none", key_index |-> PyNone, slot |-> -1]

NoLocals == [current_time |-> 0, attempts |-> 0, key |-> PyNone, slot |-> 0, tmp |-> 0]

\* a call may start in thread t
KeyCallMayStart(t) == k_pc[t] \in {"idle", "done", "raised"}

\* a call completes: what the observation records.  slot is the slot a
\* get_key returned or a mark_rate_limited marked; streak, that the call is a
\* get_key that got a key.
KeyCallCompleted(op, slot, streak) ==
    [k_obs EXCEPT
        !.prev = [op |-> op.op, key_index |-> op.key_index, slot |-> slot],
        !.streak = IF streak /\ @ >= 0 /\ @ < MaxStreak THEN @ + 1
                   ELSE IF streak /\ @ >= 0 THEN @ ELSE -1,
        !.slots = IF streak /\ k_obs.streak >= 0 /\ k_obs.streak < MaxStreak
                  THEN @ \cup {slot} ELSE @]

\* the calls counted so far and this one, counted up to MaxConcurrentCalls
CallsAfter == IF k_obs.calls < MaxConcurrentCalls THEN k_obs.calls + 1 ELSE k_obs.calls

\* get_key, lines 39-43: without keys None is returned, otherwise the time is read
GetKey(t) ==
    /\ KeyCallMayStart(t)
    /\ k_op' = [k_op EXCEPT ![t] = [op |-> "get_key", key_index |-> PyNone]]
    /\ k_seen' = [k_seen EXCEPT ![t] = [prev |-> k_obs.prev, base |-> request_counts,
                                           reset |-> FALSE]]
    /\ IF keys = <<>>
       THEN /\ k_pc' = [k_pc EXCEPT ![t] = "done"]
            /\ k_ret' = [k_ret EXCEPT ![t] = PyNone]
            /\ k_local' = k_local
            /\ k_obs' = [KeyCallCompleted(k_op'[t], -1, FALSE) EXCEPT !.calls = CallsAfter]
       ELSE /\ k_pc' = [k_pc EXCEPT ![t] = "reset_check"]
            /\ k_local' = [k_local EXCEPT ![t] = [NoLocals EXCEPT !.current_time = now]]
            /\ k_obs' = [k_obs EXCEPT !.calls = CallsAfter]
            /\ UNCHANGED k_ret
    /\ UNCHANGED <<keys, current_index, request_counts, last_reset,
                   requests_per_minute_limit, now>>
    /\ UNCHANGED <<orch_vars, engine_vars, harness_vars, routine_vars>>

\* GetKeyReset with > for >=
GetKeyResetStrictlyLater(t) ==
    /\ k_pc[t] = "reset_check"
    /\ IF k_local[t].current_time - last_reset > WindowSeconds
       THEN /\ request_counts' = ZeroCounts
            /\ last_reset' = k_local[t].current_time
            /\ k_obs' = [k_obs EXCEPT !.streak = -1]
       ELSE UNCHANGED <<request_counts, last_reset, k_obs>>
    /\ k_seen' = [k_seen EXCEPT ![t].base = request_counts',
                                 ![t].reset = (last_reset' # last_reset)]
    /\ k_pc' = [k_pc EXCEPT ![t] = "loop"]
    /\ UNCHANGED <<keys, current_index, requests_per_minute_limit, now, k_op, k_local, k_ret>>
    /\ UNCHANGED <<orch_vars, engine_vars, harness_vars, routine_vars>>

\* get_key, lines 44-49: once the window has elapsed the counts are set to
\* zero and the window starts again
GetKeyReset(t) ==
    /\ k_pc[t] = "reset_check"
    /\ IF k_local[t].current_time - last_reset >= WindowSeconds
       THEN /\ request_counts' = ZeroCounts
            /\ last_reset' = k_local[t].current_time
            /\ k_obs' = [k_obs EXCEPT !.streak = -1]
       ELSE UNCHANGED <<request_counts, last_reset, k_obs>>
    /\ k_seen' = [k_seen EXCEPT ![t].base = request_counts',
                                 ![t].reset = (last_reset' # last_reset)]
    /\ k_pc' = [k_pc EXCEPT ![t] = "loop"]
    /\ UNCHANGED <<keys, current_index, requests_per_minute_limit, now, k_op, k_local, k_ret>>
    /\ UNCHANGED <<orch_vars, engine_vars, harness_vars, routine_vars>>

\* GetKeyLoop raising when every key has reached the limit
GetKeyLoopRaisesWhenSaturated(t) ==
    /\ k_pc[t] = "loop"
    /\ IF k_local[t].attempts < Len(keys)
       THEN /\ k_pc' = [k_pc EXCEPT ![t] =
                           IF request_counts[current_index] < requests_per_minute_limit
                           THEN "take" ELSE "rotate"]
            /\ UNCHANGED <<k_ret, k_obs>>
       ELSE /\ k_pc' = [k_pc EXCEPT ![t] = "raised"]
            /\ UNCHANGED <<k_ret, k_obs>>
    /\ UNCHANGED <<keys, current_index, request_counts, last_reset,
                   requests_per_minute_limit, now, k_op, k_local, k_seen>>
    /\ UNCHANGED <<orch_vars, engine_vars, harness_vars, routine_vars>>

\* get_key, lines 50-51 and 60-61: the test of the while loop and of the
\* count of the current key; after a full lap the current key is returned
\* as it is
GetKeyLoop(t) ==
    /\ k_pc[t] = "loop"
    /\ IF k_local[t].attempts < Len(keys)
       THEN /\ k_pc' = [k_pc EXCEPT ![t] =
                           IF request_counts[current_index] < requests_per_minute_limit
                           THEN "take" ELSE "rotate"]
            /\ UNCHANGED <<k_ret, k_obs>>
       ELSE /\ k_pc' = [k_pc EXCEPT ![t] = "done"]
            /\ k_ret' = [k_ret EXCEPT ![t] = keys[current_index + 1]]
            /\ k_obs' = KeyCallCompleted(k_op[t], current_index, TRUE)
    /\ UNCHANGED <<keys, current_index, request_counts, last_reset,
                   requests_per_minute_limit, now, k_op, k_local, k_seen>>
    /\ UNCHANGED <<orch_vars, engine_vars, harness_vars, routine_vars>>

\* line 52: key = self.keys[self.current_index]
GetKeyTake(t) ==
    /\ k_pc[t] = "take"
    /\ k_local' = [k_local EXCEPT ![t].key = keys[current_index + 1]]
    /\ k_pc' = [k_pc EXCEPT ![t] = "load"]
    /\ UNCHANGED <<keys, current_index, request_counts, last_reset,
                   requests_per_minute_limit, now, k_op, k_ret, k_seen, k_obs>>
    /\ UNCHANGED <<orch_vars, engine_vars, harness_vars, routine_vars>>

\* line 53, the read of +=: the index and the count under it
GetKeyLoad(t) ==
    /\ k_pc[t] = "load"
    /\ k_local' = [k_local EXCEPT ![t].slot = current_index,
                                  ![t].tmp = request_counts[current_index]]
    /\ k_pc' = [k_pc EXCEPT ![t] = "store"]
    /\ UNCHANGED <<keys, current_index, request_counts, last_reset,
                   requests_per_minute_limit, now, k_op, k_ret, k_seen, k_obs>>
    /\ UNCHANGED <<orch_vars, engine_vars, harness_vars, routine_vars>>

\* lines 53-54, the write of +=, and the return of key
GetKeyStore(t) ==
    /\ k_pc[t] = "store"
    /\ request_counts' = [request_counts EXCEPT ![k_local[t].slot] = k_local[t].tmp + 1]
    /\ k_ret' = [k_ret EXCEPT ![t] = k_local[t].key]
    /\ k_pc' = [k_pc EXCEPT ![t] = "done"]
    /\ k_obs' = [KeyCallCompleted(k_op[t], k_local[t].slot, TRUE) EXCEPT
                     !.lost = @ \/ request_counts[k_local[t].slot] # k_local[t].tmp]
    /\ UNCHANGED <<keys, current_index, last_reset, requests_per_minute_limit, now, k_op,
                   k_local, k_seen>>
    /\ UNCHANGED <<orch_vars, engine_vars, harness_vars, routine_vars>>

\* lines 57-58: rotate to the next key
GetKeyRotate(t) ==
    /\ k_pc[t] = "rotate"
    /\ current_index' = (current_index + 1) % Len(keys)
    /\ k_local' = [k_local EXCEPT ![t].attempts = @ + 1]
    /\ k_pc' = [k_pc EXCEPT ![t] = "loop"]
    /\ UNCHANGED <<keys, request_counts, last_reset, requests_per_minute_limit, now, k_op,
                   k_ret, k_seen, k_obs>>
    /\ UNCHANGED <<orch_vars, engine_vars, harness_vars, routine_vars>>

\* d[k] = v on a dict: the key is added when it is new
DictSet(d, k, v) == [i \in DOMAIN d \cup {k} |-> IF i = k THEN v ELSE d[i]]

\* MarkRateLimited leaving the count of the key as it is
MarkRateLimitedOnlyRotates(t, key_index) ==
    /\ KeyCallMayStart(t)
    /\ LET index == IF key_index = PyNone THEN current_index ELSE key_index.n
       IN  /\ k_op' = [k_op EXCEPT ![t] = [op |-> "mark_rate_limited", key_index |-> key_index]]
           /\ k_local' = [k_local EXCEPT ![t] = [NoLocals EXCEPT !.slot = index]]
           /\ request_counts' = request_counts
    /\ k_seen' = [k_seen EXCEPT ![t] = [prev |-> k_obs.prev, base |-> request_counts,
                                           reset |-> FALSE]]
    /\ k_obs' = [k_obs EXCEPT !.streak = -1, !.calls = CallsAfter]
    /\ k_pc' = [k_pc EXCEPT ![t] = "mark_rotate"]
    /\ UNCHANGED <<keys, current_index, last_reset, requests_per_minute_limit, now, k_ret>>
    /\ UNCHANGED <<orch_vars, engine_vars, harness_vars, routine_vars>>

\* mark_rate_limited, lines 70-74: the count of the key is set to the limit
MarkRateLimited(t, key_index) ==
    /\ KeyCallMayStart(t)
    /\ LET index == IF key_index = PyNone THEN current_index ELSE key_index.n
       IN  /\ k_op' = [k_op EXCEPT ![t] = [op |-> "mark_rate_limited", key_index |-> key_index]]
           /\ k_local' = [k_local EXCEPT ![t] = [NoLocals EXCEPT !.slot = index]]
           /\ request_counts' = DictSet(request_counts, index, requests_per_minute_limit)
    /\ k_seen' = [k_seen EXCEPT ![t] = [prev |-> k_obs.prev, base |-> request_counts,
                                           reset |-> FALSE]]
    /\ k_obs' = [k_obs EXCEPT !.streak = -1, !.calls = CallsAfter]
    /\ k_pc' = [k_pc EXCEPT ![t] = "mark_rotate"]
    /\ UNCHANGED <<keys, current_index, last_reset, requests_per_minute_limit, now, k_ret>>
    /\ UNCHANGED <<orch_vars, engine_vars, harness_vars, routine_vars>>

\* MarkRotate without the wrap-around
MarkRotateNoWrap(t) ==
    /\ k_pc[t] = "mark_rotate"
    /\ IF keys = <<>>
       THEN /\ k_pc' = [k_pc EXCEPT ![t] = "raised"]
            /\ UNCHANGED <<current_index, k_ret, k_obs>>
       ELSE /\ current_index' = current_index + 1
            /\ k_ret' = [k_ret EXCEPT ![t] = PyNone]
            /\ k_pc' = [k_pc EXCEPT ![t] = "done"]
            /\ k_obs' = KeyCallCompleted(k_op[t], k_local[t].slot, FALSE)
    /\ UNCHANGED <<keys, request_counts, last_reset, requests_per_minute_limit, now, k_op,
                   k_local, k_seen>>
    /\ UNCHANGED <<orch_vars, engine_vars, harness_vars, routine_vars>>

\* mark_rate_limited, line 77: rotate to the next key; with no keys the
\* modulo raises ZeroDivisionError
MarkRotate(t) ==
    /\ k_pc[t] = "mark_rotate"
    /\ IF keys = <<>>
       THEN /\ k_pc' = [k_pc EXCEPT ![t] = "raised"]
            /\ UNCHANGED <<current_index, k_ret, k_obs>>
       ELSE /\ current_index' = (current_index + 1) % Len(keys)
            /\ k_ret' = [k_ret EXCEPT ![t] = PyNone]
            /\ k_pc' = [k_pc EXCEPT ![t] = "done"]
            /\ k_obs' = KeyCallCompleted(k_op[t], k_local[t].slot, FALSE)
    /\ UNCHANGED <<keys, request_counts, last_reset, requests_per_minute_limit, now, k_op,
                   k_local, k_seen>>
    /\ UNCHANGED <<orch_vars, engine_vars, harness_vars, routine_vars>>

\* time passes
Tick(d) ==
    /\ k_obs.ticks < MaxTicks
    /\ now' = now + d
    /\ k_obs' = [k_obs EXCEPT !.ticks = @ + 1]
    /\ UNCHANGED <<keys, current_index, request_counts, last_reset,
                   requests_per_minute_limit, k_pc, k_op, k_local, k_ret, k_seen>>
    /\ UNCHANGED <<orch_vars, engine_vars, harness_vars, routine_vars>>

\* ------------------------------------------- routines/routine_manager.py
\* The names the functions are called with.
RoutineNames == {<<"morning">>, <<"test_routine">>, <<"Test", " ", "Routine">>}

\* name.lower().replace(' ', '_')
NormalizeName(name) ==
    [k \in 1..Len(name) |->
        CASE name[k] = " " -> "_"
          [] name[k] = "Test" -> "test"
          [] name[k] = "Routine" -> "routine"
          [] OTHER -> name[k]]

\* the preset the tests read, routines/presets/morning.json
PresetNames == {<<"morning">>}

\* the steps a routine is created or updated with
RoutineSteps == {<<>>, <<"open_app">>}

NotFound(op, name) ==
    [op |-> op, name |-> name, success |-> FALSE, source |-> "none", routine |-> <<>>]

\* create_routine, lines 142-179: the routine is stored under the normalized
\* name, over one of that name
create_routine(raw, steps) ==
    LET name == NormalizeName(raw)
        routine == [name |-> name, steps |-> steps]
    IN  /\ r_custom' = [n \in DOMAIN r_custom \cup {name} |->
                           IF n = name THEN routine ELSE r_custom[n]]
        /\ r_ret' = [op |-> "create_routine", name |-> name, success |-> TRUE,
                     source |-> "custom", routine |-> routine]
        /\ r_deleted' = r_deleted \ {name}
        /\ UNCHANGED r_presets
        /\ UNCHANGED <<orch_vars, engine_vars, harness_vars, keys_vars>>

\* get_routine, lines 182-215: the custom routine of that name, else the
\* preset of that name, else not found
get_routine(raw) ==
    LET name == NormalizeName(raw)
    IN  /\ r_ret' = IF name \in DOMAIN r_custom
                    THEN [op |-> "get_routine", name |-> name, success |-> TRUE,
                          source |-> "custom", routine |-> r_custom[name]]
                    ELSE IF name \in r_presets
                    THEN [op |-> "get_routine", name |-> name, success |-> TRUE,
                          source |-> "preset", routine |-> [name |-> name, steps |-> <<"preset">>]]
                    ELSE NotFound("get_routine", name)
        /\ UNCHANGED <<r_custom, r_presets, r_deleted>>
        /\ UNCHANGED <<orch_vars, engine_vars, harness_vars, keys_vars>>

\* update_routine, lines 218-254: only a custom routine can be updated
update_routine(raw, steps) ==
    LET name == NormalizeName(raw)
    IN  /\ IF name \in DOMAIN r_custom
           THEN /\ r_custom' = [r_custom EXCEPT ![name].steps = steps]
                /\ r_ret' = [op |-> "update_routine", name |-> name, success |-> TRUE,
                             source |-> "custom", routine |-> r_custom'[name]]
           ELSE /\ r_custom' = r_custom
                /\ r_ret' = NotFound("update_routine", name)
        /\ UNCHANGED <<r_presets, r_deleted>>
        /\ UNCHANGED <<orch_vars, engine_vars, harness_vars, keys_vars>>

\* delete_routine keeping the routine in routines.json
delete_routine_without_save(raw) ==
    LET name == NormalizeName(raw)
    IN  /\ IF name \in DOMAIN r_custom
           THEN /\ r_custom' = r_custom
                /\ r_ret' = [op |-> "delete_routine", name |-> name, success |-> TRUE,
                             source |-> "custom", routine |-> <<>>]
                /\ r_deleted' = r_deleted \cup {name}
           ELSE /\ r_custom' = r_custom
                /\ r_ret' = NotFound("delete_routine", name)
                /\ r_deleted' = r_deleted
        /\ UNCHANGED r_presets
        /\ UNCHANGED <<orch_vars, engine_vars, harness_vars, keys_vars>>

\* delete_routine, lines 257-283: only a custom routine can be deleted
delete_routine(raw) ==
    LET name == NormalizeName(raw)
    IN  /\ IF name \in DOMAIN r_custom
           THEN /\ r_custom' = [n \in DOMAIN r_custom \ {name} |-> r_custom[n]]
                /\ r_ret' = [op |-> "delete_routine", name |-> name, success |-> TRUE,
                             source |-> "custom", routine |-> <<>>]
                /\ r_deleted' = r_deleted \cup {name}
           ELSE /\ r_custom' = r_custom
                /\ r_ret' = NotFound("delete_routine", name)
                /\ r_deleted' = r_deleted
        /\ UNCHANGED r_presets
        /\ UNCHANGED <<orch_vars, engine_vars, harness_vars, keys_vars>>

\* no routine function has been called: routines.json does not exist
RoutinesInit(presets) ==
    /\ r_custom = <<>>
    /\ r_presets = presets
    /\ r_ret = [op |-> "none", name |-> <<>>, success |-> FALSE, source |-> "none",
                routine |-> <<>>]
    /\ r_deleted = {}

RoutinesIdle == RoutinesInit(PresetNames)

\* ------------------------------------------------------------ specification
NoPlan == [thinking |-> "", tool_calls |-> <<>>, response |-> <<>>, needs_automation |-> FALSE]

\* OrchestratorAgent.__init__: the client exists when a key is configured
OrchInit ==
    /\ client \in BOOLEAN
    /\ pc = "idle"
    /\ user_input = <<>>
    /\ plan = NoPlan
    /\ idx = 0
    /\ params = <<>>
    /\ step_memory = <<>>
    /\ results = <<>>
    /\ fb_call = NoMatch
    /\ ret = <<>>
    /\ escaped = <<>>
    /\ trace = <<>>
    /\ lifecycle = <<>>

OrchNext ==
    \/ \E text \in Inputs : Orchestrate(text)
    \/ \E content \in Contents : PlanParsed(content)
    \/ \E content \in Contents : PlanParseFailed(content)
    \/ \E e \in PlanningErrors : PlanningRaises(e)
    \/ \E ok \in BOOLEAN : HandleAutomation(ok)
    \/ ExecutePlan
    \/ StepUnknownTool
    \/ StepInvoke
    \/ \E result \in ToolResults : ToolReturns(result)
    \/ \E err \in ToolErrors : ToolRaises(err)
    \/ FinishPlan
    \/ FallbackDispatch
    \/ \E result \in FallbackResults : FallbackToolReturns(result)
    \/ \E err \in ToolErrors : FallbackToolRaises(err)

\* no run() has been called
EngineLocalsInit ==
    /\ e_pc = [r \in Threads |-> "idle"]
    /\ e_steps = [r \in Threads |-> <<>>]
    /\ e_i = [r \in Threads |-> 0]
    /\ e_params = [r \in Threads |-> <<>>]
    /\ e_log = [r \in Threads |-> <<>>]
    /\ e_final = [r \in Threads |-> PyNone]
    /\ e_result = [r \in Threads |-> PyNone]
    /\ e_ret = [r \in Threads |-> <<>>]
    /\ e_id = [r \in Threads |-> 0]
    /\ e_started = 0
    /\ e_reads = [r \in Threads |-> {}]
    /\ e_calls = [r \in Threads |-> <<>>]

\* WorkflowEngine.__init__, line 24
EngineInit == memory = <<>> /\ EngineLocalsInit

HarnessIdle ==
    /\ h_params = <<>>
    /\ h_done = {}
    /\ h_orch = <<>>
    /\ h_engine = <<>>

\* the steps of run() in thread r, called with a workflow of W
EngineNext(r, W) ==
    \/ \E steps \in W : EngineRun(r, steps)
    \/ EngineStepUnknown(r)
    \/ EngineStepInvoke(r)
    \/ \E result \in EngineResults : EngineToolReturns(r, result)
    \/ EngineCalculateReturns(r)
    \/ \E err \in ToolErrors : EngineToolRaises(r, err)
    \/ EngineFinish(r)

\* APIKeyManager.__init__, lines 25-29, on a pool and with a limit
KeyManagerInit(pool, limit) ==
    /\ keys = pool
    /\ current_index = 0
    /\ request_counts = [i \in 0..(Len(pool) - 1) |-> 0]
    /\ last_reset = 0
    /\ requests_per_minute_limit = limit
    /\ now = 0
    /\ k_pc = [t \in Threads |-> "idle"]
    /\ k_op = [t \in Threads |-> [op |-> "none", key_index |-> PyNone]]
    /\ k_local = [t \in Threads |-> NoLocals]
    /\ k_ret = [t \in Threads |-> PyNone]
    /\ k_seen = [t \in Threads |-> [prev |-> NoCall, base |-> request_counts, reset |-> FALSE]]
    /\ k_obs = [prev |-> NoCall, ticks |-> 0, streak |-> 0, slots |-> {}, lost |-> FALSE,
                calls |-> 0]

\* the key manager as constructed; no method of it is called
KeysIdle == KeyManagerInit(Pool(MaxKeys), MaxBudget)

\* thread t calls a method of the key manager
KeyCall(t) ==
    \/ GetKey(t)
    \/ \E key_index \in KeyIndexArgs : MarkRateLimited(t, key_index)

\* a step of the call thread t is in
KeyStep(t) ==
    \/ GetKeyReset(t)
    \/ GetKeyLoop(t)
    \/ GetKeyTake(t)
    \/ GetKeyLoad(t)
    \/ GetKeyStore(t)
    \/ GetKeyRotate(t)
    \/ MarkRotate(t)

\* One orchestrate() call, or runs of the engine one after the other in one
\* thread.  The orchestrator and the engine share no state.
Init == OrchInit /\ EngineInit /\ HarnessIdle /\ KeysIdle /\ RoutinesIdle

Next == OrchNext \/ EngineNext(1, Workflows)

Spec == Init /\ [][Next]_vars

\* Runs of the one engine from two threads at once.
InitConcurrent == OrchInit /\ client /\ EngineInit /\ HarnessIdle /\ KeysIdle /\ RoutinesIdle

NextConcurrent == \E r \in Threads : EngineNext(r, ConcurrentWorkflows)

SpecConcurrent == InitConcurrent /\ [][NextConcurrent]_vars

\* The two _resolve_params called on a memory and params of the harness.
InitResolve ==
    /\ OrchInit /\ client
    /\ EngineLocalsInit
    /\ memory \in HarnessMemories
    /\ h_params \in HarnessParams
    /\ h_done = {}
    /\ h_orch = <<>>
    /\ h_engine = <<>>
    /\ KeysIdle
    /\ RoutinesIdle

NextResolve == HarnessOrchResolve \/ HarnessEngineResolve

SpecResolve == InitResolve /\ [][NextResolve]_vars

\* One orchestrate() call whose planning call raises: the planning service
\* cannot be reached or turns the request down.
InitFallback == OrchInit /\ client /\ EngineInit /\ HarnessIdle /\ KeysIdle /\ RoutinesIdle

NextFallback ==
    \/ \E text \in FallbackInputs : Orchestrate(text)
    \/ \E e \in PlanningErrors : PlanningRaises(e)
    \/ FallbackDispatch
    \/ \E result \in FallbackResults : FallbackToolReturns(result)
    \/ \E err \in ToolErrors : FallbackToolRaises(err)

SpecFallback == InitFallback /\ [][NextFallback]_vars

\* Calls of the routine functions one after the other, with or without the
\* preset files installed.
InitRoutines ==
    /\ OrchInit /\ client
    /\ EngineInit
    /\ HarnessIdle
    /\ KeysIdle
    /\ \E presets \in SUBSET PresetNames : RoutinesInit(presets)

NextRoutines ==
    \/ \E raw \in RoutineNames, steps \in RoutineSteps : create_routine(raw, steps)
    \/ \E raw \in RoutineNames : get_routine(raw)
    \/ \E raw \in RoutineNames, steps \in RoutineSteps : update_routine(raw, steps)
    \/ \E raw \in RoutineNames : delete_routine(raw)

SpecRoutines == InitRoutines /\ [][NextRoutines]_vars

\* Calls of get_key and mark_rate_limited on the one key manager, one after
\* the other, while time passes.
InitKeys ==
    /\ OrchInit /\ client
    /\ EngineInit
    /\ HarnessIdle
    /\ RoutinesIdle
    /\ \E n \in 0..MaxKeys, limit \in 1..MaxBudget : KeyManagerInit(Pool(n), limit)

NextKeys == KeyCall(1) \/ KeyStep(1) \/ \E d \in TickSteps : Tick(d)

SpecKeys == InitKeys /\ [][NextKeys]_vars

\* The same calls made from two threads at once, within one window.
InitKeysConcurrent ==
    /\ OrchInit /\ client
    /\ EngineInit
    /\ HarnessIdle
    /\ RoutinesIdle
    /\ \E n \in 1..MaxKeys, limit \in 1..MaxBudget : KeyManagerInit(Pool(n), limit)

NextKeysConcurrent ==
    \E t \in Threads : (k_obs.calls < MaxConcurrentCalls /\ KeyCall(t)) \/ KeyStep(t)

SpecKeysConcurrent == InitKeysConcurrent /\ [][NextKeysConcurrent]_vars

\* ------------------------------------------------------------------ claims
\* the positions of log that are entries of step k
EntriesOf(log, k) == {j \in 1..Len(log) : log[j].step = k}

\* the steps of the plan whose tool is not registered
UnknownSteps == {k \in 1..Len(plan.tool_calls) : plan.tool_calls[k].tool \notin ToolsRegistry}

\* step k was attempted: its parameters were resolved
Attempted(k) == \E j \in 1..Len(trace) : trace[j].ev = "resolve" /\ trace[j].step = k

\* _execute_plan ran its loop to the end and orchestrate returned its results
ExecutionReturned ==
    /\ pc = "returned"
    /\ plan.tool_calls # <<>>
    /\ \E j \in 1..Len(trace) : trace[j].ev = "execute"

\* C1: a step whose tool is not in the registry leaves exactly one log entry,
\* of status error, and makes success false; the loop goes on, so every step
\* of the plan is attempted and the returned log has one entry per step.
C1_UnknownToolIsRecordedAndSkipped ==
    /\ pc \in {"loop", "calling"} =>
          \A k \in UnknownSteps :
              k <= idx =>
                  /\ Cardinality(EntriesOf(results.execution_log, k)) = 1
                  /\ results.execution_log[k].status = "error"
                  /\ ~results.success
    /\ ExecutionReturned =>
          /\ Len(ret.execution_log) = Len(plan.tool_calls)
          /\ \A k \in 1..Len(plan.tool_calls) :
                 /\ Attempted(k)
                 /\ ret.execution_log[k].step = k
          /\ \A k \in UnknownSteps :
                 /\ Cardinality(EntriesOf(ret.execution_log, k)) = 1
                 /\ ret.execution_log[k].status = "error"
                 /\ ~ret.success

\* C1: step 1 names an unknown tool, step 2 a registered one that succeeded
C1_Witness ==
    /\ ExecutionReturned
    /\ Len(plan.tool_calls) = 2
    /\ UnknownSteps = {1}
    /\ Len(ret.execution_log) = 2
    /\ ret.execution_log[1].status = "error"
    /\ ret.execution_log[2].status = "success"
    /\ ~ret.success

\* the steps of the plan whose tool raised
RaisedSteps == {trace[j].step : j \in {x \in 1..Len(trace) : trace[x].ev = "raise"}}

\* the log of thread r's run ends with the error of a tool that raised
EngineToolRaised(r) ==
    /\ e_log[r] # <<>>
    /\ e_log[r][Len(e_log[r])].status = "error"
    /\ e_log[r][Len(e_log[r])].error \in ToolErrors

\* What holds of the orchestrator when a tool raises: the step is logged as
\* an error, success is false, nothing leaves _execute_plan, and every step
\* of the plan is executed, in order.
OrchToolErrorIsIsolated ==
    /\ pc \in {"loop", "calling"} =>
          \A k \in RaisedSteps :
              /\ Cardinality(EntriesOf(results.execution_log, k)) = 1
              /\ results.execution_log[k].status = "error"
              /\ ~results.success
    /\ (\E j \in 1..Len(trace) : trace[j].ev = "execute") => pc # "raised" /\ escaped = <<>>
    /\ ExecutionReturned =>
          /\ Len(ret.execution_log) = Len(plan.tool_calls)
          /\ \A k \in 1..Len(plan.tool_calls) : Attempted(k) /\ ret.execution_log[k].step = k
          /\ \A k \in RaisedSteps : ret.execution_log[k].status = "error" /\ ~ret.success

C3_AlwaysAStructuredResult ==
    /\ pc # "raised"
    /\ escaped = <<>>
    /\ pc = "returned" =>
          /\ "success" \in DOMAIN ret
          /\ "message" \in DOMAIN ret \/ "response" \in DOMAIN ret

\* a plan lifecycle state the call went through
Visited(state) == \E k \in 1..Len(lifecycle) : lifecycle[k] = state

\* C4: the fallback dispatcher is entered exactly when the planning call
\* reported a rate limit; not on a parse failure, not on another error of the
\* planning service, not on a failure of one of the plan's tools.
C4_FallbackExactlyOnRateLimit ==
    Visited("Fallback") <=> Visited("PlanFailed(RateLimited)")

FinalStates == {"Completed", "PartiallyFailed", "Degraded", "Terminal"}

\* C5: the call follows one path of the plan lifecycle: Executing only from
\* PlanReady, Fallback only from PlanFailed(RateLimited), a parse or other
\* planning failure straight to Terminal, no state twice, and a call that
\* has returned ended in exactly one of Completed, PartiallyFailed, Degraded
\* and Terminal.
C5_OnePathOfTheLifecycle ==
    /\ \A k \in 1..Len(lifecycle) :
           /\ lifecycle[k] = "Executing" => k > 1 /\ lifecycle[k - 1] = "PlanReady"
           /\ lifecycle[k] = "Fallback" => k > 1 /\ lifecycle[k - 1] = "PlanFailed(RateLimited)"
           /\ lifecycle[k] \in {"PlanFailed(Parse)", "PlanFailed(Other)"} /\ k < Len(lifecycle)
                  => lifecycle[k + 1] = "Terminal"
           /\ lifecycle[k] \in FinalStates => k = Len(lifecycle)
           /\ \A j \in 1..Len(lifecycle) : lifecycle[j] = lifecycle[k] => j = k
    /\ pc = "returned" => lifecycle[Len(lifecycle)] \in FinalStates
    /\ pc \notin {"idle", "returned", "raised"} => ENABLED OrchNext

RECURSIVE MemoryAfterEvents(_)
\* the step memory that the tool returns among the first n events build
MemoryAfterEvents(n) ==
    IF n = 0 THEN <<>>
    ELSE LET m == MemoryAfterEvents(n - 1)
             e == trace[n]
         IN  IF e.ev # "return" THEN m
             ELSE IF ContentPrintRaises(e.result) THEN StoreContent(m, e.result)
             ELSE StoreResultAndMessage(StoreContent(m, e.result), e.result)

StepEvents == {"resolve", "invoke", "return", "raise", "unknown"}

\* C6: the tool calls are made in plan order: a step is resolved and invoked
\* only after the step before it has returned or failed, and its parameters
\* are resolved on the memory holding every write of the steps before it.
C6_StepsInOrderOnCurrentMemory ==
    \A j \in 1..Len(trace) :
        /\ trace[j].ev = "resolve" =>
               LET k == trace[j].step
               IN  /\ trace[j].params =
                          Orch_resolve_params(plan.tool_calls[k].params, MemoryAfterEvents(j - 1))
                   /\ k = 1 \/ \E x \in 1..(j - 1) :
                                   /\ trace[x].ev \in {"return", "raise", "unknown"}
                                   /\ trace[x].step = k - 1
                   /\ \A x \in 1..(j - 1) : trace[x].ev \in StepEvents => trace[x].step < k
        /\ trace[j].ev = "invoke" =>
               /\ j > 1
               /\ trace[j - 1].ev = "resolve"
               /\ trace[j - 1].step = trace[j].step
               /\ trace[j - 1].params = trace[j].params
               /\ trace[j].tool = plan.tool_calls[trace[j].step].tool

\* C6: step 2 was invoked with a value that step 1 stored
C6_Witness ==
    /\ ExecutionReturned
    /\ Len(plan.tool_calls) = 2
    /\ \E j \in 1..Len(trace) :
           /\ trace[j].ev = "invoke"
           /\ trace[j].step = 2
           /\ trace[j].params # plan.tool_calls[2].params

\* how many events of kind ev the trace holds
Count(ev) == Cardinality({j \in 1..Len(trace) : trace[j].ev = ev})

\* C7: within one call the planning service is called at most once, the plan
\* is executed at most once, and each tool call of the plan is invoked at
\* most once, also when it failed.
C7_NothingIsRepeated ==
    /\ Count("plan_call") <= 1
    /\ Count("execute") <= 1
    /\ \A k \in 1..Len(plan.tool_calls) :
           Cardinality({j \in 1..Len(trace) : trace[j].ev = "invoke" /\ trace[j].step = k}) <= 1

\* C7: the plan was executed to its end although a tool raised
C7_Witness ==
    /\ ExecutionReturned
    /\ RaisedSteps # {}
    /\ Count("plan_call") = 1
    /\ Count("execute") = 1
    /\ Count("invoke") = Len(plan.tool_calls)

\* C8: no run of the engine reads a value another run wrote (the
\* orchestrator's step_memory is a local of each _execute_plan call).
C8_StepMemoryIsPrivate ==
    \A r \in Threads : e_reads[r] \subseteq {e_id[r]}

\* C9: a parameter that is exactly "$X", with X stored, resolves to the
\* stored value itself, of the type it was stored with.
C9_ExactReferenceKeepsTheValue ==
    \A X \in MemNames(memory) :
        h_params = [p |-> PyStr(<<"$">> \o X)] =>
            /\ "orchestrator" \in h_done => h_orch.p = MemGet(memory, X)
            /\ "engine" \in h_done => h_engine.p = MemGet(memory, X)

\* C9: the integer 42 is stored under city and "$city" resolved by both
C9_Witness ==
    /\ h_done = {"orchestrator", "engine"}
    /\ MemHas(memory, <<"city">>)
    /\ MemGet(memory, <<"city">>) = PyInt(42)
    /\ h_params = [p |-> PyStr(<<"$", "city">>)]
    /\ h_orch.p = PyInt(42)
    /\ h_engine.p = PyInt(42)

\* C10: a text that holds $NAME beside other text, with NAME the stored
\* variable, resolves to the text with every $NAME replaced by str(value).
C10_InterpolationIsTextual ==
    Len(memory) = 1 /\ IsStr(h_params.p) =>
        LET ref == <<"$">> \o memory[1].name
            expected == PyStr(Replace(h_params.p.s, ref, StrOf(memory[1].value)))
        IN  Contains(h_params.p.s, ref) /\ h_params.p.s # ref =>
                /\ "orchestrator" \in h_done => h_orch.p = expected
                /\ "engine" \in h_done => h_engine.p = expected

\* the value is one reference "$NAME" and nothing else
IsReference(v) ==
    /\ IsStr(v)
    /\ Len(v.s) >= 2
    /\ StartsWithDollar(v.s)
    /\ \A k \in 2..Len(v.s) : v.s[k] \notin {"$", " "}

\* C11: a parameter that is a reference to a variable that is not stored is
\* returned verbatim by parameter resolution, which raises nothing ("$UNKNOWN"
\* on an empty memory stays "$UNKNOWN"), and the step is invoked with it.
C11_UnknownReferenceIsLeftVerbatim ==
    /\ h_done # {} /\ IsReference(h_params.p) /\ ~MemHas(memory, Tail(h_params.p.s)) =>
           /\ "orchestrator" \in h_done => h_orch.p = h_params.p
           /\ "engine" \in h_done => h_engine.p = h_params.p
    /\ \A j \in 1..Len(trace) :
           /\ trace[j].ev = "invoke"
           /\ plan.tool_calls[trace[j].step].params = [text |-> PyStr(<<"$", "UNKNOWN">>)]
           => trace[j].params = [text |-> PyStr(<<"$", "UNKNOWN">>)]

\* what is stored under name: <<value>>, or <<>> when nothing is
VarValue(mem, name) == IF MemHas(mem, name) THEN <<MemGet(mem, name)>> ELSE <<>>

OutputFields == {"content", "result", "message"}

\* content if present, otherwise result, otherwise message
Preferred(r) ==
    IF "content" \in DOMAIN r.d THEN r.d.content
    ELSE IF "result" \in DOMAIN r.d THEN r.d.result
    ELSE r.d.message

\* the loop of _execute_plan has just logged a step as a success
OrchStepJustSucceeded ==
    /\ pc = "loop"
    /\ idx > 0
    /\ trace[Len(trace)].ev = "return"
    /\ results.execution_log[Len(results.execution_log)].status = "success"

\* C12: after a step succeeded with a structured result, what later steps
\* get as the previous step's output is the result's content if it has one,
\* otherwise its result, otherwise its message.
C12_PrecedenceContentResultMessage ==
    /\ OrchStepJustSucceeded =>
           LET r == trace[Len(trace)].result
           IN  IsDict(r) /\ DOMAIN r.d \cap OutputFields # {} =>
                   VarValue(step_memory, CONTENT_FROM_PREVIOUS_STEP) = <<Preferred(r)>>
    /\ \A t \in Threads :
           /\ e_pc[t] = "loop" /\ e_i[t] > 0
           /\ IsDict(e_result[t]) /\ DOMAIN e_result[t].d \cap OutputFields # {}
           => e_final[t] = Preferred(e_result[t])

\* the step of _execute_plan that logs a success
OrchStepSucceeds ==
    /\ pc = "calling"
    /\ pc' = "loop"
    /\ results'.execution_log[Len(results'.execution_log)].status = "success"

\* field of the result r went to the variable var, and a result without the
\* field left var as it was
FieldStored(r, field, var) ==
    IF IsDict(r) /\ field \in DOMAIN r.d
    THEN VarValue(step_memory', var) = <<r.d[field]>>
    ELSE VarValue(step_memory', var) = VarValue(step_memory, var)

\* summary if present, otherwise response, otherwise result, otherwise r itself
EngineChoice(r) ==
    IF ~IsDict(r) THEN r
    ELSE IF "summary" \in DOMAIN r.d THEN r.d.summary
    ELSE IF "response" \in DOMAIN r.d THEN r.d.response
    ELSE IF "result" \in DOMAIN r.d THEN r.d.result
    ELSE r

\* C12 as amended: a successful step of _execute_plan stores each field its
\* result has under that field's own variable (content under
\* CONTENT_FROM_PREVIOUS_STEP and LAST_CONTENT, result under LAST_RESULT,
\* message under LAST_MESSAGE) and leaves the variable of a missing field;
\* WorkflowEngine.run stores and returns summary, else response, else result,
\* else the whole result.
C12_EachFieldUnderItsOwnName ==
    [][/\ OrchStepSucceeds =>
              LET r == trace'[Len(trace')].result
              IN  /\ FieldStored(r, "content", CONTENT_FROM_PREVIOUS_STEP)
                  /\ FieldStored(r, "content", LAST_CONTENT)
                  /\ FieldStored(r, "result", LAST_RESULT)
                  /\ FieldStored(r, "message", LAST_MESSAGE)
       /\ \A t \in Threads :
              e_pc[t] = "calling" /\ e_pc'[t] = "loop" =>
                  /\ e_final'[t] = EngineChoice(e_result'[t])
                  /\ e_steps[t][e_i[t] + 1].store_result # <<>> =>
                         VarValue(memory',
                                  Replace(e_steps[t][e_i[t] + 1].store_result, <<"$">>, <<>>))
                             = <<EngineChoice(e_result'[t])>>]_vars

\* C12: a step succeeded with a result and a message but no content; both
\* are stored and no previous content is
C12_Witness ==
    /\ OrchStepJustSucceeded
    /\ trace[Len(trace)].result = PyDict([result |-> PyInt(10), message |-> PyStr(<<"10">>)])
    /\ VarValue(step_memory, LAST_RESULT) = <<PyInt(10)>>
    /\ VarValue(step_memory, LAST_MESSAGE) = <<PyStr(<<"10">>)>>
    /\ VarValue(step_memory, CONTENT_FROM_PREVIOUS_STEP) = <<>>

\* the workflow of test_sequential_execution
SequentialWorkflow ==
    <<[tool |-> "calculate", params |-> [expression |-> PyStr(<<"5", "+", "5">>)],
       store_result |-> <<"step1">>],
      [tool |-> "calculate",
       params |-> [expression |-> PyStr(<<"$", "step1", " ", "+", " ", "2">>)],
       store_result |-> <<"$", "final">>]>>

\* C13: the run of [calculate 5+5 stored as step1, calculate "$step1 + 2"]
\* succeeds with the number 12 as its result; and while a step's tool is
\* being called, each parameter that refers to a stored name holds the value
\* stored under it (the value itself for a bare reference, its text inside
\* "$step1 + 2").
C13_ChainingIsNumeric ==
    /\ e_pc[1] = "returned" /\ e_steps[1] = SequentialWorkflow =>
           /\ e_ret[1].success
           /\ e_ret[1].result = PyInt(12)
    /\ e_pc[1] = "calling" =>
           \A k \in DOMAIN EStep(1).params :
               LET raw == EStep(1).params[k]
               IN  /\ IsReference(raw) /\ MemHas(memory, Tail(raw.s)) =>
                          e_params[1][k] = MemGet(memory, Tail(raw.s))
                   /\ raw = PyStr(<<"$", "step1", " ", "+", " ", "2">>)
                      /\ MemHas(memory, <<"step1">>) =>
                          e_params[1][k] =
                              PyStr(StrOf(MemGet(memory, <<"step1">>)) \o <<" ", "+", " ", "2">>)

\* C13: the run of the test has returned 12, with 10 stored as step1
C13_Witness ==
    /\ e_pc[1] = "returned"
    /\ e_steps[1] = SequentialWorkflow
    /\ e_ret[1].success
    /\ e_ret[1].result = PyInt(12)
    /\ VarValue(memory, <<"step1">>) = <<PyInt(10)>>
    /\ VarValue(memory, <<"final">>) = <<PyInt(12)>>

\* the planning output was decoded into a plan
PlanWasParsed == Visited("PlanReady")

\* orchestrate returned the conversational result of the plan: a success
\* carrying the response, nothing called, nothing logged
ConversationalResult ==
    /\ DOMAIN ret = DOMAIN NewResults(plan, user_input)
    /\ ret.success
    /\ ret.response = plan.response
    /\ ret.tool_calls = <<>>
    /\ ret.execution_log = <<>>
    /\ \A j \in 1..Len(trace) : trace[j].ev \notin {"invoke", "automation", "fallback_invoke"}

\* C14: a plan without tool calls and with a response ends the call with the
\* successful conversational result carrying the response, an empty
\* tool-call list and an empty log, and no tool is invoked.
C14_NoToolCallsShortCircuits ==
    pc = "returned" /\ PlanWasParsed /\ plan.tool_calls = <<>> /\ plan.response # <<>>
        => ConversationalResult

\* C14 as amended: the same, for a plan that does not ask for automation
C14_ConversationalPlanShortCircuits ==
    /\ pc = "returned" /\ PlanWasParsed
    /\ plan.tool_calls = <<>> /\ plan.response # <<>> /\ ~plan.needs_automation
    => ConversationalResult

\* C14: the call returned the response of a conversational plan
C14_Witness ==
    /\ pc = "returned"
    /\ PlanWasParsed
    /\ plan.tool_calls = <<>>
    /\ ~plan.needs_automation
    /\ plan.response = <<"Sure">>
    /\ ret.response = <<"Sure">>
    /\ ret.success

\* thread 1 is in a get_key() call on a pool that has keys, or has left it
InGetKey == k_op[1].op = "get_key" /\ keys # <<>>

\* thread 1 has completed a get_key() call on a pool that has keys
GetKeyDone == InGetKey /\ k_pc[1] \in {"done", "raised"}

\* the keys of the pool
PoolKeys == {keys[i] : i \in 1..Len(keys)}

\* C15: get_key() on a pool that has keys never raises and returns a key of
\* the pool, however many keys have reached the limit, after at most one lap
\* of the pool; with 2 keys and a limit of 2, five get_key() calls in a row
\* within one window have returned both keys, the fifth returns a key too,
\* and both counts are then at least the limit.
C15_GetKeyNeverFails ==
    /\ InGetKey =>
          /\ k_pc[1] # "raised"
          /\ k_local[1].attempts <= Len(keys)
    /\ GetKeyDone => k_ret[1] \in PoolKeys
    /\ (Len(keys) = 2 /\ requests_per_minute_limit = 2 /\ k_obs.streak >= 5) =>
          /\ k_obs.slots = {0, 1}
          /\ \A i \in 0..1 : request_counts[i] >= requests_per_minute_limit

\* the fifth get_key() in a row on 2 keys with a limit of 2 has returned
C15_Witness ==
    /\ GetKeyDone
    /\ Len(keys) = 2
    /\ requests_per_minute_limit = 2
    /\ k_obs.streak = 5
    /\ k_local[1].attempts = Len(keys)

\* C16: every get_key() call on a pool that has keys has added one to the
\* count of the key it returned, also when every key had reached the limit.
C16_EveryGetKeyCounts ==
    (GetKeyDone /\ k_pc[1] = "done") =>
        request_counts[k_obs.prev.slot] = k_seen[1].base[k_obs.prev.slot] + 1

\* the call thread 1 made before its get_key() was mark_rate_limited on
\* slot m of the pool
MarkedJustBefore(m) ==
    /\ k_seen[1].prev.op = "mark_rate_limited"
    /\ k_seen[1].prev.slot = m

\* the other keys of the pool have all reached the limit
OthersSaturated(m) ==
    \A j \in (0..(Len(keys) - 1)) \ {m} : request_counts[j] >= requests_per_minute_limit

\* C17 as stated: a get_key() made right after mark_rate_limited() on a key
\* does not return that key unless every other key of the pool has reached
\* the limit.
C17_MarkedKeyIsNotReturnedNext ==
    \A m \in 0..(Len(keys) - 1) :
        (GetKeyDone /\ k_pc[1] = "done" /\ MarkedJustBefore(m) /\ k_obs.prev.slot = m) =>
            OthersSaturated(m)

\* C17: a get_key() made right after mark_rate_limited() on a key, and that
\* does not start a new window, does not return that key unless every other
\* key of the pool has reached the limit.
C17_MarkedKeyIsNotReturnedInTheWindow ==
    \A m \in 0..(Len(keys) - 1) :
        (GetKeyDone /\ k_pc[1] = "done" /\ MarkedJustBefore(m) /\ ~k_seen[1].reset
            /\ k_obs.prev.slot = m) =>
            OthersSaturated(m)

\* in the window of a mark_rate_limited() on a key that another key could
\* stand in for, get_key() has returned another key
C17_Witness ==
    \E m \in 0..(Len(keys) - 1) :
        /\ GetKeyDone /\ k_pc[1] = "done"
        /\ MarkedJustBefore(m)
        /\ ~k_seen[1].reset
        /\ k_seen[1].base[m] >= requests_per_minute_limit
        /\ k_obs.prev.slot \in (0..(Len(keys) - 1)) \ {m}

\* a step of the model changes the counts downwards, or the start of the window
CountsLowered ==
    \/ last_reset' # last_reset
    \/ \E i \in DOMAIN request_counts :
           i \notin DOMAIN request_counts' \/ request_counts'[i] < request_counts[i]

\* the step is the window test of the get_key() call of thread 1
WindowTest == k_pc[1] = "reset_check" /\ k_pc'[1] = "loop"

\* C18: the counts are set to zero and the window is started again by the
\* get_key() call that finds WindowSeconds or more elapsed since the last
\* reset, and by that call whenever it finds so; a get_key() made earlier
\* resets nothing, and nothing else (mark_rate_limited, the passing of
\* time) lowers a count or moves the start of the window.
C18_WindowResetsLazily ==
    [][ /\ CountsLowered => WindowTest
        /\ WindowTest =>
              IF k_local[1].current_time - last_reset >= WindowSeconds
              THEN /\ request_counts' = [i \in 0..(Len(keys) - 1) |-> 0]
                   /\ last_reset' = k_local[1].current_time
              ELSE /\ request_counts' = request_counts
                   /\ last_reset' = last_reset
      ]_vars

\* a get_key() call has just started a new window, zeroing the count of the
\* key that the call before it had marked
C18_Witness ==
    /\ k_pc[1] = "loop"
    /\ k_seen[1].reset
    /\ last_reset = k_local[1].current_time
    /\ last_reset >= WindowSeconds
    /\ k_seen[1].prev.op = "mark_rate_limited"
    /\ k_seen[1].prev.slot \in 0..(Len(keys) - 1)
    /\ request_counts = ZeroCounts

\* C19: on a pool of n keys, n > 0, current_index is in 0..n-1 whatever
\* get_key() and mark_rate_limited() calls were made, and the key a
\* get_key() call has returned is the one stored at current_index.
C19_PointerIndexesThePool ==
    keys # <<>> =>
        /\ current_index \in 0..(Len(keys) - 1)
        /\ (GetKeyDone /\ k_pc[1] = "done") => k_ret[1] = keys[current_index + 1]

\* get_key() has returned the key at the pointer after mark_rate_limited()
\* took the pointer from the last slot round to the first
C19_Witness ==
    /\ GetKeyDone /\ k_pc[1] = "done"
    /\ Len(keys) = MaxKeys
    /\ k_seen[1].prev.op = "mark_rate_limited"
    /\ k_seen[1].prev.key_index = PyNone
    /\ k_seen[1].prev.slot = Len(keys) - 1
    /\ current_index = 0
    /\ k_ret[1] = keys[1]

\* C20: calls of get_key() and mark_rate_limited() made at once leave what
\* calls made one after the other leave: no += of a count is lost and no
\* count passes the limit.
C20_CallsAreSerialized ==
    /\ ~k_obs.lost
    /\ \A i \in 0..(Len(keys) - 1) : request_counts[i] <= requests_per_minute_limit

\* C21: with no keys in the pool get_key() returns no key and
\* mark_rate_limited() does not raise an error of its own.
C21_EmptyPoolFailsFast ==
    keys = <<>> =>
        /\ k_pc[1] # "raised"
        /\ (k_op[1].op = "get_key" /\ k_pc[1] = "done") => k_ret[1] = PyNone

\* the tool calls the fallback matchers made, in order
FallbackCalls == SelectSeq(trace, LAMBDA ev : ev.ev = "fallback_invoke")

\* the planning call raised and orchestrate() has dealt with it
PlanningRaised(kinds) ==
    /\ Len(lifecycle) >= 4
    /\ lifecycle[3] \in kinds
    /\ pc \in {"fb_calling", "returned", "raised"}

SetVolumeTo42 == <<"set", "volume", "to", "42">>

\* C22 as stated: when the planning service cannot be reached, whether it
\* limits the rate or the call fails otherwise, "set volume to 42" makes the
\* volume matcher call set_volume once, with level 42.
C22_UnreachableRoutesToVolume ==
    (user_input = SetVolumeTo42 /\ PlanningRaised({"PlanFailed(RateLimited)", "PlanFailed(Other)"})) =>
        /\ Len(FallbackCalls) = 1
        /\ FallbackCalls[1].tool = "set_volume"
        /\ FallbackCalls[1].arg = PyInt(42)

\* C22: when the planning call fails with a rate limit, "set volume to 42"
\* makes the volume matcher call set_volume once, with level 42, and no
\* other tool; whenever the volume matcher handles a text, set_volume is
\* called with the first number in the text.
C22_RateLimitedRoutesToVolume ==
    /\ (user_input = SetVolumeTo42 /\ PlanningRaised({"PlanFailed(RateLimited)"})) =>
          /\ Len(FallbackCalls) = 1
          /\ FallbackCalls[1].tool = "set_volume"
          /\ FallbackCalls[1].arg = PyInt(42)
          /\ \A k \in 1..Len(trace) : trace[k].ev \in {"plan_call", "fallback_invoke"}
    /\ \A k \in 1..Len(FallbackCalls) :
          FallbackCalls[k].tool = "set_volume" =>
              /\ InText(user_input, "volume")
              /\ \E i \in 1..Len(user_input) :
                    /\ IsNumber(user_input[i])
                    /\ \A j \in 1..(i - 1) : ~IsNumber(user_input[j])
                    /\ FallbackCalls[k].arg = PyInt(NumVal(user_input[i]))

\* set_volume(42) has returned to the volume matcher after a rate limit
C22_Witness ==
    /\ user_input = SetVolumeTo42
    /\ PlanningRaised({"PlanFailed(RateLimited)"})
    /\ pc = "returned"
    /\ fb_call.matcher = "volume"
    /\ fb_call.arg = PyInt(42)
    /\ ret.fallback

\* the matchers in the order of the claim: application launch, volume, time,
\* weather, calculator, file and downloads search, text entry, document analysis
MatcherOrder == <<"app", "volume", "time", "weather", "calculator", "files", "type", "analyze">>

\* what matcher m alone makes of the text
MatchOf(m, words) ==
    CASE m = "app" -> AppMatch(words)
      [] m = "volume" -> VolumeMatch(words)
      [] m = "time" -> TimeMatch(words)
      [] m = "weather" -> WeatherMatch(words)
      [] m = "calculator" -> CalculatorMatch(words)
      [] m = "files" -> FilesMatch(words)
      [] m = "type" -> TypeMatch(words)
      [] m = "analyze" -> AnalyzeMatch(words)

\* the matchers that match the text: their keywords are there and their
\* pattern completes
Matching(words) == {i \in 1..Len(MatcherOrder) : MatchOf(MatcherOrder[i], words) # NoMatch}

\* the dispatcher has answered, or called the tool of a matcher
Dispatched ==
    /\ Len(lifecycle) >= 4
    /\ lifecycle[4] = "Fallback"
    /\ pc \in {"fb_calling", "returned", "raised"}

\* the matcher that answered
Answering ==
    IF Len(FallbackCalls) > 0 THEN fb_call.matcher
    ELSE IF pc = "returned" /\ "fallback" \in DOMAIN ret THEN ret.response[1]
    ELSE "none"

\* C23: the matchers are tried in one order and the first that matches
\* answers: the answer is that of the first matcher of MatcherOrder that
\* matches the text, whatever later matchers would make of it, and one
\* dispatch calls at most one tool, the tool of that matcher.
C23_FirstMatchWins ==
    Dispatched =>
        /\ Len(FallbackCalls) <= 1
        /\ IF Matching(user_input) = {}
           THEN Answering = "none" /\ FallbackCalls = <<>>
           ELSE LET first == MatcherOrder[Leftmost(Matching(user_input))]
                IN  /\ Answering = first
                    /\ \A k \in 1..Len(FallbackCalls) :
                          /\ FallbackCalls[k].tool = MatchOf(first, user_input).tool
                          /\ FallbackCalls[k].arg = MatchOf(first, user_input).arg

\* the volume matcher found its keyword but no number, and the time matcher
\* answered
C23_FallThrough ==
    /\ Dispatched
    /\ InText(user_input, "volume")
    /\ Answering = "time"

\* a text that two matchers match was answered by the first of them
C23_Witness ==
    /\ Dispatched
    /\ pc = "returned"
    /\ Cardinality(Matching(user_input)) >= 2
    /\ Answering = "volume"
    /\ MatchOf("time", user_input) # NoMatch

\* C24: an exception raised by the tool a fallback matcher calls is caught
\* by the matcher: it does not leave the dispatcher, which returns a result.
C24_FallbackToolErrorIsCaught ==
    Len(FallbackCalls) > 0 =>
        /\ escaped = <<>>
        /\ pc \in {"fb_calling", "returned"}

\* C25: when no matcher matches the text the dispatcher calls no tool and
\* returns the rate-limit result: success False, rate_limited True, and a
\* retry_after of some seconds.
C25_NoMatchIsTerminal ==
    (Dispatched /\ FallbackMatch(user_input) = NoMatch) =>
        /\ pc = "returned"
        /\ FallbackCalls = <<>>
        /\ "success" \in DOMAIN ret /\ ~ret.success
        /\ "rate_limited" \in DOMAIN ret /\ ret.rate_limited
        /\ "retry_after" \in DOMAIN ret /\ ret.retry_after > 0
        /\ lifecycle[Len(lifecycle)] = "Terminal"

\* "hello" was given the rate-limit result
C25_Witness ==
    /\ Dispatched
    /\ user_input = <<"hello">>
    /\ FallbackMatch(user_input) = NoMatch
    /\ ret = RateLimitMessage

\* the planning call returned a JSON document inside a markdown code fence
FencedJson(content) == content.fence /\ content.body = "json"

\* C26: planning output that is valid JSON inside a markdown code fence is
\* decoded as a plan, not turned down as a parse failure; output that is
\* not JSON ends the call with a parse failure, without a tool call and
\* without the fallback dispatcher.
C26_FencedJsonIsAccepted ==
    (pc = "returned" /\ "raw_response" \in DOMAIN ret) =>
        /\ ~FencedJson(ret.raw_response)
        /\ ~ret.success
        /\ \A k \in 1..Len(trace) : trace[k].ev = "plan_call"
        /\ ~Visited("Fallback")

\* C27: once delete_routine(name) has succeeded, get_routine(name) reports
\* that the routine is not found, until create_routine makes one of that
\* name again.
C27_DeletedRoutineIsNotFound ==
    (r_ret.op = "get_routine" /\ r_ret.name \in r_deleted) => ~r_ret.success

\* C27 as amended: once delete_routine(name) has succeeded, get_routine(name)
\* reports that the routine is not found for every name that no preset has,
\* until create_routine makes one of that name again.
C27_DeletedCustomRoutineIsNotFound ==
    (/\ r_ret.op = "get_routine"
     /\ r_ret.name \in r_deleted
     /\ r_ret.name \notin r_presets) => ~r_ret.success

\* get_routine has answered not found for a deleted routine that it had
\* found before the deletion
C27_Witness ==
    /\ r_ret.op = "get_routine"
    /\ r_ret.name \in r_deleted
    /\ r_ret.name \notin r_presets
    /\ r_ret.name \notin DOMAIN r_custom
    /\ ~r_ret.success

\* the length of the name that starts s: the atoms before the next "$" or " "
NameLen(s) ==
    LET stops == {k \in 1..Len(s) : s[k] \in {"$", " "}}
    IN  IF stops = {} THEN Len(s)
        ELSE (CHOOSE k \in stops : \A j \in stops : k <= j) - 1

RECURSIVE ResolveExact(_, _)
\* s with every "$NAME" replaced by str of the value stored under exactly NAME
ResolveExact(s, mem) ==
    IF s = <<>> THEN <<>>
    ELSE IF s[1] = "$"
    THEN LET rest == Tail(s)
             n == NameLen(rest)
             name == SubSeq(rest, 1, n)
         IN  (IF n > 0 /\ MemHas(mem, name)
              THEN StrOf(MemGet(mem, name))
              ELSE <<"$">> \o name)
             \o ResolveExact(SubSeq(rest, n + 1, Len(rest)), mem)
    ELSE <<s[1]>> \o ResolveExact(Tail(s), mem)

\* the memory with its variables stored in the opposite order
StoredInReverse(mem) == [k \in 1..Len(mem) |-> mem[Len(mem) + 1 - k]]

\* C28: with a and ab both stored, "$ab" inside a longer text is replaced by
\* the value stored under ab by the engine's interpolation, and the resolved
\* text is the same whichever of the two variables was stored first.
C28_InterpolationMatchesWholeNames ==
    /\ "engine" \in h_done
    /\ IsStr(h_params.p)
    /\ MemNames(memory) = {<<"a">>, <<"a", "b">>}
    /\ Contains(h_params.p.s, <<"$", "a", "b">>)
    /\ h_params.p.s # <<"$", "a", "b">>
    => /\ h_engine.p = PyStr(ResolveExact(h_params.p.s, memory))
       /\ h_engine.p = Engine_resolve_params(h_params, StoredInReverse(memory)).p

\* the step of _execute_plan that ends with the tool unknown or raising
OrchStepFails ==
    /\ pc \in {"loop", "calling"}
    /\ Len(trace') = Len(trace) + (IF pc = "loop" THEN 2 ELSE 1)
    /\ trace'[Len(trace')].ev \in {"unknown", "raise"}

\* field is missing from the result r and var is as it was
MissingFieldKept(r, field, var) ==
    ~(IsDict(r) /\ field \in DOMAIN r.d) =>
        VarValue(step_memory', var) = VarValue(step_memory, var)

\* the position in the trace of the "resolve" event of step k
ResolveOf(k) == CHOOSE j \in 1..Len(trace) : trace[j].ev = "resolve" /\ trace[j].step = k

\* the step after a failed step was resolved on the memory the failed step
\* started with
ResolvedPastFailures ==
    \A j \in 1..Len(trace) :
        /\ trace[j].ev = "resolve"
        /\ trace[j].step > 1
        /\ \E x \in 1..(j - 1) :
               trace[x].ev \in {"unknown", "raise"} /\ trace[x].step = trace[j].step - 1
        => trace[j].params =
               Orch_resolve_params(plan.tool_calls[trace[j].step].params,
                                   MemoryAfterEvents(ResolveOf(trace[j].step - 1) - 1))

LoggedWith(st) ==
    SelectSeq([k \in 1..Len(ret.execution_log) |-> ret.execution_log[k].step],
              LAMBDA k : ret.execution_log[k].status = st)

\* C30: when _execute_plan has finished a plan of n tool calls, the
\* execution log has n entries with steps 1..n in order, the tool-call trace
\* has one entry for each step logged as success, in the same order, and
\* success is false exactly when an entry has status error.
C30_LogTraceAndFlagAgree ==
    ExecutionReturned =>
        /\ Len(ret.execution_log) = Len(plan.tool_calls)
        /\ \A k \in 1..Len(ret.execution_log) :
               /\ ret.execution_log[k].step = k
               /\ ret.execution_log[k].tool = plan.tool_calls[k].tool
               /\ ret.execution_log[k].status \in {"success", "error"}
        /\ Len(ret.tool_calls) = Len(LoggedWith("success"))
        /\ \A i \in 1..Len(ret.tool_calls) :
               LET k == LoggedWith("success")[i]
               IN  /\ ret.tool_calls[i].tool = plan.tool_calls[k].tool
                   /\ \E j \in 1..Len(trace) :
                          /\ trace[j].ev = "return"
                          /\ trace[j].step = k
                          /\ trace[j].result = ret.tool_calls[i].result
        /\ ret.success = (LoggedWith("error") = <<>>)

\* C30: a plan of two steps has finished; the first step failed, the second
\* returned a failure result without raising and is the only entry of the
\* tool-call trace
C30_Witness ==
    /\ ExecutionReturned
    /\ Len(plan.tool_calls) = 2
    /\ LoggedWith("error") = <<1>>
    /\ LoggedWith("success") = <<2>>
    /\ Len(ret.tool_calls) = 1
    /\ ret.tool_calls[1].result =
           PyDict([success |-> PyBool(FALSE), message |-> PyStr(<<"failed">>)])
    /\ ~ret.success

\* a plan has finished whose only failure is a result that reports one: it
\* is logged as a success and the run counts as one
C30_FailureResultIsLoggedAsSuccess ==
    /\ ExecutionReturned
    /\ LoggedWith("error") = <<>>
    /\ \E i \in 1..Len(ret.tool_calls) :
           ret.tool_calls[i].result =
               PyDict([success |-> PyBool(FALSE), message |-> PyStr(<<"failed">>)])
    /\ ret.success

============================================================================
